---- MODULE Spec2Model ----
(***************************************************************************)
(* Bid admission of the auction marketplace: the HTTP view place_bid, the  *)
(* CAPTCHA resume verify_captcha, the WebSocket consumer create_bid, the   *)
(* USSD bid confirmation, and the buy-now purchase (web and USSD), all     *)
(* acting on one auction item, its bids, the bid cooldowns, the fraud      *)
(* alerts, the per-user session stash and the wallets.                     *)
(*                                                                         *)
(* No view holds a lock or a transaction across its statements (Django's   *)
(* autocommit), so a request is a sequence of steps run by a request slot, *)
(* cut where the rows it has written become visible to the other requests  *)
(* or where it reads rows again, and the steps of different slots          *)
(* interleave.  A model instance loaded by a request is a snapshot (field  *)
(* snap); item.save() writes the snapshot's fields back.  Time is in       *)
(* seconds.                                                                *)
(***************************************************************************)
EXTENDS Integers, FiniteSets, Sequences, TLC

VARIABLES
    item,        \* the Item row
    bids,        \* the Bid rows of the item
    nextBid,     \* next Bid primary key
    cooldowns,   \* the BidCooldown rows
    nextCd,      \* next BidCooldown primary key
    alerts,      \* the FraudAlert rows
    session,     \* per user: the Django session keys pending_bid_<id>, show_captcha_<id>
    ussd,        \* the USSDSession row of the phone (stage, user, bid_amount)
    wallet,      \* per user: Wallet.balance
    procs,       \* per request slot: the running request and its locals
    now,         \* timezone.now()
    requests,    \* number of requests started so far
    commits,     \* history: number of bids committed so far
    profile,     \* per user: UserProfile bypass flags, is_superuser, account age
    other,       \* per user: the user's recent bids on other auctions
    dbRowLocks,  \* whether the database backend has SELECT ... FOR UPDATE
    ws,          \* the WebSocket rate limit: the cache entry of bidder a, the
                 \* last message received, the number of messages received at
                 \* this second, and history: whether the cache ever raised
                 \* and, while it has not, the messages of a accepted per second
    payment,     \* the Payment row, the webhook_event cache keys, the webhook
                 \* requests in flight, and history: the deliveries that
                 \* passed check_replay_protection
    txlog,       \* the TransactionLog rows and the creations in flight
    otp          \* the EmailOTP row of bidder a and the verify_code calls in flight

vars == <<item, bids, nextBid, cooldowns, nextCd, alerts, session, ussd, wallet,
          procs, now, requests, commits, profile, other, dbRowLocks, ws,
          payment, txlog, otp>>

----------------------------------------------------------------------------
(* Bounds of the model *)

MaxAmount == 5
MaxNow == 600
MaxRequests == 2
MaxHistory == 9
MaxRaceHistory == 5
WsMaxNow == 60
WsMaxBurst == 11
HookMaxNow == 300
OtpMaxNow == 300
MaxLogs == 5

Slots == {"p1", "p2"}
Seller == "s"
Bidders == {"a", "b"}
Users == {Seller} \cup Bidders
Amounts == {2, 3, MaxAmount}
TickSteps == {300}
NoUser == "nobody"

----------------------------------------------------------------------------
(* Settings read through django.conf.settings (the settings module).        *)

RAPID_BID_SOFT_THRESHOLD_2MIN == 5
RAPID_BID_SOFT_WINDOW_2MIN == 2
RAPID_BID_SOFT_THRESHOLD_5MIN == 8
RAPID_BID_SOFT_WINDOW_5MIN == 5
RAPID_BID_HARD_THRESHOLD_5MIN == 12
RAPID_BID_HARD_WINDOW_5MIN == 5
RAPID_BID_HARD_THRESHOLD_20SEC == 4
RAPID_BID_HARD_WINDOW_20SEC == 20
RAPID_BID_COOLDOWN_DURATION == 300
AUCTION_ENDGAME_MULTIPLIER_X10 == 20
AUCTION_ENDGAME_WINDOW_MINUTES == 5
GLOBAL_VELOCITY_SOFT_WINDOW_MINUTES == 5
GLOBAL_VELOCITY_SOFT_THRESHOLD_BIDS == 10
GLOBAL_VELOCITY_SOFT_THRESHOLD_AUCTIONS == 3
GLOBAL_VELOCITY_HARD_WINDOW_MINUTES == 10
GLOBAL_VELOCITY_HARD_THRESHOLD_BIDS == 20
GLOBAL_VELOCITY_HARD_THRESHOLD_AUCTIONS == 5
MIN_INCREMENT_WINDOW_SECONDS == 120
MIN_INCREMENT_THRESHOLD_BIDS == 5
HIGH_VALUE_BID_THRESHOLD == 4
MIN_ACCOUNT_AGE_FOR_HIGH_BIDS == 7

(* Literals of the code *)
SOFT_CHALLENGE_MINUTES == 10
ESCALATION_HOURS == 1
ESCALATION_COUNT == 2
MAX_FAILED_ATTEMPTS == 3
PENDING_BID_MAX_AGE == 300
TAX_PERCENT == 5
\* max_messages and window of check_websocket_rate_limit
WS_MAX_MESSAGES == 10
WS_WINDOW == 60
REPLAY_WINDOW == 300
RECONCILE_AGE == 3600
OTP_VALIDITY == 300

----------------------------------------------------------------------------
(* Rows and helpers *)

NoStash == [present |-> FALSE, amount |-> 0, timestamp |-> 0, show_captcha |-> FALSE]

\* the seconds at which WebSocket messages arrive
WsTickSteps == {30}
WsTimes == { t \in 0..WsMaxNow : \E d \in WsTickSteps : t % d = 0 }

\* no entry under the cache key ws_ratelimit:auction:<user id>
NoEntry == [present |-> FALSE, count |-> 0, reset_time |-> 0, expires |-> 0]

NoMessage == [user |-> NoUser, type |-> "none", cache |-> "ok", allowed |-> TRUE,
              dispatch |-> "none"]

InitialWs == [cache |-> NoEntry, last |-> NoMessage, burst |-> 0, failed |-> FALSE,
              accepted |-> [t \in WsTimes |-> 0]]

\* the payment providers that post webhooks (paypal_webhook and its handlers
\* are stripe_webhook's, statement for statement), the event ids they send and
\* the cache keys webhook_event:<provider>:<event id>
WebhookProviders == {"flutterwave", "stripe"}
EventIds == {"e1", "e2"}
WebhookKeys == WebhookProviders \X EventIds

NoDelivery == [provider |-> "none", id |-> "none", type |-> "none", successful |-> FALSE,
               known |-> FALSE]

\* a webhook request: where it stands, the event it carries, its response
NoHook == [pc |-> "idle", delivery |-> NoDelivery, response |-> "none"]

NoPass == [last |-> 0, n |-> 0]

\* the value of an unset previous_hash or current_hash ('')
NoHash == <<>>

\* a TransactionLog.objects.create call: where it stands, the pk it inserted
NoCreate == [pc |-> "idle", pk |-> 0]

\* an empty TransactionLog table; rows[i] is the row of id i
InitialTxlog == [rows |-> <<>>, creates |-> [p \in Slots |-> NoCreate]]

\* the codes a caller may submit: the one generate_code mailed, and another
OtpCodes == {"c1", "c2"}
OtpPurposes == {"login", "sensitive"}

\* a verify_code call: where it stands, its arguments, what it returned
NoCall == [pc |-> "idle", user |-> NoUser, code |-> "none", purpose |-> "none",
           result |-> "none"]

\* the EmailOTP that generate_code(a, 'login') created at 0
InitialOtp == [row |-> [user |-> "a", code |-> "c1", purpose |-> "login", used |-> FALSE,
                        expires_at |-> OTP_VALIDITY],
               calls |-> [p \in Slots |-> NoCall],
               successes |-> 0]

InitialPayment == [status |-> "pending",
                   created_at |-> 0,
                   cache |-> [k \in WebhookKeys |-> 0],
                   hooks |-> [p \in Slots |-> NoHook],
                   logged |-> 0,
                   job |-> "none",
                   passed |-> [k \in WebhookKeys |-> NoPass]]

NoUssd == [stage |-> "none", user |-> NoUser, bid_amount |-> 0]

NoCooldown == [id |-> 0, user |-> NoUser, scope |-> "none", cooldown_type |-> "none",
               expires_at |-> 0, created_at |-> 0, is_active |-> FALSE,
               captcha_required |-> FALSE, captcha_passed |-> FALSE, failed_attempts |-> 0]

NoItem == [status |-> "none", current_price |-> 0, min_increment |-> 0, buy_now_price |-> 0,
           end_time |-> 0, bid_count |-> 0, winner |-> NoUser]

CeilDiv(a, b) == (a + b - 1) \div b

BidExists(id) == \E b \in bids : b.id = id

\* A request slot that runs nothing.  reject is why place_bid will delete its
\* bid.  cooled and seen are history: whether a hard cooldown of the user
\* covered the item when the request started, and the status of the item a
\* buy-now request read.
Idle == [kind |-> "none", pc |-> "idle", user |-> NoUser, amount |-> 0, snap |-> NoItem,
         bid |-> 0, highest |-> 0, high_amount |-> 0, wbal |-> 0, cooled |-> FALSE,
         seen |-> "none", reject |-> "no", outcome |-> "none"]

\* A finished request: what it was, the bid row it wrote, and its outcome.
Done(pr, out) == [Idle EXCEPT !.kind = pr.kind, !.pc = "done", !.user = pr.user,
                              !.amount = pr.amount, !.bid = pr.bid,
                              !.cooled = pr.cooled, !.seen = pr.seen, !.outcome = out]

Running(p) == procs[p].pc \notin {"idle", "done"}

\* A new request takes the first slot that runs nothing.
Free(p) ==
    /\ ~Running(p)
    /\ requests < MaxRequests
    /\ p = "p1" \/ Running("p1")

\* UserProfile bypass flags as place_bid combines them.
BypassAll(u) == profile[u].is_superuser \/ profile[u].bypass_all_restrictions

BypassRapidBidding(u) == profile[u].is_superuser \/ profile[u].bypass_rapid_bidding_check \/ BypassAll(u)

BypassAccountAge(u) == profile[u].is_superuser \/ profile[u].bypass_account_age_check \/ BypassAll(u)

BypassFraud(u) == profile[u].is_superuser \/ profile[u].bypass_fraud_detection \/ BypassAll(u)

----------------------------------------------------------------------------
(* BidCooldown (auctions/models.py) *)

\* cleanup_expired sparing the rows that expire at this very moment
CleanupExpiredStrict(cds, t) ==
    { IF c.is_active /\ c.expires_at < t THEN [c EXCEPT !.is_active = FALSE] ELSE c : c \in cds }

\* cleanup_expired: deactivate every active row whose expires_at has passed.
CleanupExpired(cds, t) ==
    { IF c.is_active /\ c.expires_at <= t THEN [c EXCEPT !.is_active = FALSE] ELSE c : c \in cds }

\* The rows get_active_cooldown selects from, after its cleanup.  withItem is
\* whether an item was passed: then item-scoped and global rows both match.
ActiveCooldowns(cds, u, withItem, t) ==
    { c \in CleanupExpired(cds, t) :
        /\ c.user = u
        /\ c.is_active
        /\ c.expires_at > t
        /\ IF withItem THEN c.scope \in {"item", "global"} ELSE c.scope = "global" }

\* get_active_cooldown: order_by('-created_at').first(); rows are created in
\* id order, so the latest created row is the one with the highest id.
GetActiveCooldown(cds, u, withItem, t) ==
    LET act == ActiveCooldowns(cds, u, withItem, t)
    IN  IF act = {} THEN NoCooldown
        ELSE CHOOSE c \in act : \A d \in act : d.id <= c.id

NewCooldown(id, u, scope, type, expires, t, captcha) ==
    [id |-> id, user |-> u, scope |-> scope, cooldown_type |-> type,
     expires_at |-> expires, created_at |-> t, is_active |-> TRUE,
     captcha_required |-> captcha, captcha_passed |-> FALSE, failed_attempts |-> 0]

----------------------------------------------------------------------------
(* RapidBiddingDetector (auctions/rapid_bidding.py) *)

\* _create_hard_cooldown
CreateHardCooldown(cds, id, u, scope, duration, t) ==
    cds \cup {NewCooldown(id, u, scope, "hard_cooldown", t + duration, t, FALSE)}

\* _create_soft_challenge escalating one soft challenge later
CreateSoftChallengeOnFourth(cds, id, u, scope, t) ==
    LET recent == { c \in cds : /\ c.user = u
                                /\ c.scope = scope
                                /\ c.cooldown_type = "soft_challenge"
                                /\ c.created_at >= t - ESCALATION_HOURS * 3600 }
    IN  IF Cardinality(recent) >= ESCALATION_COUNT + 1
        THEN [escalated |-> TRUE, created |-> TRUE,
              cds |-> CreateHardCooldown(cds, id, u, scope, RAPID_BID_COOLDOWN_DURATION * 2, t)]
        ELSE [escalated |-> FALSE, created |-> TRUE,
              cds |-> cds \cup {NewCooldown(id, u, scope, "soft_challenge",
                                            t + SOFT_CHALLENGE_MINUTES * 60, t, TRUE)}]

\* _create_soft_challenge counting the recent soft challenges of every scope
CreateSoftChallengeAnyScope(cds, id, u, scope, t) ==
    LET recent == { c \in cds : /\ c.user = u
                                /\ c.cooldown_type = "soft_challenge"
                                /\ c.created_at >= t - ESCALATION_HOURS * 3600 }
        existing == { c \in cds : /\ c.user = u
                                  /\ c.scope = scope
                                  /\ c.cooldown_type = "soft_challenge"
                                  /\ c.is_active }
    IN  IF Cardinality(recent) >= ESCALATION_COUNT
        THEN [escalated |-> TRUE, created |-> TRUE,
              cds |-> CreateHardCooldown(cds, id, u, scope, RAPID_BID_COOLDOWN_DURATION * 2, t)]
        ELSE IF existing = {}
        THEN [escalated |-> FALSE, created |-> TRUE,
              cds |-> cds \cup {NewCooldown(id, u, scope, "soft_challenge",
                                            t + SOFT_CHALLENGE_MINUTES * 60, t, TRUE)}]
        ELSE [escalated |-> FALSE, created |-> FALSE, cds |-> cds]

\* _create_soft_challenge: [escalated, cds, created]
CreateSoftChallenge(cds, id, u, scope, t) ==
    LET recent == { c \in cds : /\ c.user = u
                                /\ c.scope = scope
                                /\ c.cooldown_type = "soft_challenge"
                                /\ c.created_at >= t - ESCALATION_HOURS * 3600 }
        existing == { c \in cds : /\ c.user = u
                                  /\ c.scope = scope
                                  /\ c.cooldown_type = "soft_challenge"
                                  /\ c.is_active }
    IN  IF Cardinality(recent) >= ESCALATION_COUNT
        THEN [escalated |-> TRUE, created |-> TRUE,
              cds |-> CreateHardCooldown(cds, id, u, scope, RAPID_BID_COOLDOWN_DURATION * 2, t)]
        ELSE IF existing = {}
        THEN [escalated |-> FALSE, created |-> TRUE,
              cds |-> cds \cup {NewCooldown(id, u, scope, "soft_challenge",
                                            t + SOFT_CHALLENGE_MINUTES * 60, t, TRUE)}]
        ELSE [escalated |-> FALSE, created |-> FALSE, cds |-> cds]

\* _is_auction_endgame
IsAuctionEndgame(it, t) ==
    /\ it.status = "active"
    /\ 0 < it.end_time - t
    /\ it.end_time - t <= AUCTION_ENDGAME_WINDOW_MINUTES * 60

\* the threshold without the endgame multiplier
ThresholdUnscaled(base, endgame) == base

\* math.ceil(threshold * multiplier), the multiplier being 1.0 outside the endgame
Threshold(base, endgame) ==
    IF endgame THEN CeilDiv(base * AUCTION_ENDGAME_MULTIPLIER_X10, 10) ELSE base

\* the user's bids on the item with bid_time >= now - seconds
WindowCount(bs, u, t, seconds) ==
    Cardinality({ b \in bs : b.bidder = u /\ b.bid_time >= t - seconds })

\* _check_window comparing and reporting the recorded bids alone
CheckWindowExcludingPending(bs, u, t, seconds, threshold) ==
    [exceeded |-> WindowCount(bs, u, t, seconds) >= threshold,
     count |-> WindowCount(bs, u, t, seconds)]

\* _check_window: [exceeded, count], the count including the pending bid
CheckWindow(bs, u, t, seconds, threshold) ==
    [exceeded |-> WindowCount(bs, u, t, seconds) + 1 >= threshold,
     count |-> WindowCount(bs, u, t, seconds) + 1]

\* the user's bids on other auctions that fall into the window
OtherBids(u, t, seconds) == IF other[u].time >= t - seconds THEN other[u].bids ELSE 0

OtherAuctions(u, t, seconds) == IF other[u].time >= t - seconds THEN other[u].auctions ELSE 0

\* the global velocity check satisfied by either count alone
CheckGlobalVelocityEither(bs, u, t, minutes, minBids, minAuctions) ==
    LET own == WindowCount(bs, u, t, minutes * 60)
        bid_count == own + OtherBids(u, t, minutes * 60) + 1
        auction_count == OtherAuctions(u, t, minutes * 60) + (IF own > 0 THEN 1 ELSE 0)
    IN  bid_count >= minBids \/ auction_count >= minAuctions

\* _check_global_velocity_soft and _check_global_velocity_hard
CheckGlobalVelocity(bs, u, t, minutes, minBids, minAuctions) ==
    LET own == WindowCount(bs, u, t, minutes * 60)
        bid_count == own + OtherBids(u, t, minutes * 60) + 1
        auction_count == OtherAuctions(u, t, minutes * 60) + (IF own > 0 THEN 1 ELSE 0)
    IN  bid_count >= minBids /\ auction_count >= minAuctions

\* the user's recent bids on the item in bid_time order, as their amounts
RECURSIVE AmountsInOrder(_)
AmountsInOrder(bs) ==
    IF bs = {} THEN <<>>
    ELSE LET first == CHOOSE b \in bs :
                        \A c \in bs : b.bid_time < c.bid_time
                                      \/ (b.bid_time = c.bid_time /\ b.id <= c.id)
         IN  <<first.amount>> \o AmountsInOrder(bs \ {first})

\* _check_minimum_increment_pattern; tolerance 1.1 as 11/10
CheckMinimumIncrementPattern(bs, u, it, amount, t) ==
    LET recent == AmountsInOrder({ b \in bs : b.bidder = u
                                              /\ b.bid_time >= t - MIN_INCREMENT_WINDOW_SECONDS })
        steps == Cardinality({ i \in 1..(Len(recent) - 1) :
                                 (recent[i + 1] - recent[i]) * 10 <= it.min_increment * 11 })
        last == IF Len(recent) > 0
                   /\ (amount - recent[Len(recent)]) * 10 <= it.min_increment * 11
                THEN 1 ELSE 0
    IN  IF Len(recent) < MIN_INCREMENT_THRESHOLD_BIDS - 1 THEN FALSE
        ELSE steps + last >= MIN_INCREMENT_THRESHOLD_BIDS

GateResult(allowed, action, cds, created) ==
    [allowed |-> allowed, action |-> action, cds |-> cds, created |-> created]

\* check_rapid_bidding testing the global velocity before the item's windows
CheckRapidBiddingGlobalFirst(cds, id, bs, u, it, amount, t) ==
    LET clean == CleanupExpired(cds, t)
        existing == GetActiveCooldown(cds, u, TRUE, t)
        endgame == IsAuctionEndgame(it, t)
        soft2 == CheckWindow(bs, u, t, RAPID_BID_SOFT_WINDOW_2MIN * 60,
                             Threshold(RAPID_BID_SOFT_THRESHOLD_2MIN, endgame))
        soft5 == CheckWindow(bs, u, t, RAPID_BID_SOFT_WINDOW_5MIN * 60,
                             Threshold(RAPID_BID_SOFT_THRESHOLD_5MIN, endgame))
        hard5 == CheckWindow(bs, u, t, RAPID_BID_HARD_WINDOW_5MIN * 60,
                             Threshold(RAPID_BID_HARD_THRESHOLD_5MIN, endgame))
        hard20 == CheckWindow(bs, u, t, RAPID_BID_HARD_WINDOW_20SEC,
                              Threshold(RAPID_BID_HARD_THRESHOLD_20SEC, endgame))
        softItem == CreateSoftChallenge(clean, id, u, "item", t)
        softGlobal == CreateSoftChallenge(clean, id, u, "global", t)
    IN  IF existing.cooldown_type = "soft_challenge" /\ ~existing.captcha_passed
        THEN GateResult(FALSE, "soft_challenge", clean, FALSE)
        ELSE IF existing.cooldown_type \in {"hard_cooldown", "suspended"}
        THEN GateResult(FALSE, existing.cooldown_type, clean, FALSE)
        ELSE IF CheckGlobalVelocity(bs, u, t, GLOBAL_VELOCITY_SOFT_WINDOW_MINUTES,
                                    GLOBAL_VELOCITY_SOFT_THRESHOLD_BIDS,
                                    GLOBAL_VELOCITY_SOFT_THRESHOLD_AUCTIONS)
        THEN GateResult(FALSE, "soft_challenge", softGlobal.cds, softGlobal.created)
        ELSE IF CheckGlobalVelocity(bs, u, t, GLOBAL_VELOCITY_HARD_WINDOW_MINUTES,
                                    GLOBAL_VELOCITY_HARD_THRESHOLD_BIDS,
                                    GLOBAL_VELOCITY_HARD_THRESHOLD_AUCTIONS)
        THEN GateResult(FALSE, "hard_cooldown",
                        CreateHardCooldown(clean, id, u, "global",
                                           RAPID_BID_COOLDOWN_DURATION * 2, t),
                        TRUE)
        ELSE IF soft2.exceeded \/ soft5.exceeded
        THEN GateResult(FALSE, IF softItem.escalated THEN "hard_cooldown" ELSE "soft_challenge",
                        softItem.cds, softItem.created)
        ELSE IF hard5.exceeded \/ hard20.exceeded
        THEN GateResult(FALSE, "hard_cooldown",
                        CreateHardCooldown(clean, id, u, "item", RAPID_BID_COOLDOWN_DURATION, t),
                        TRUE)
        ELSE IF CheckMinimumIncrementPattern(bs, u, it, amount, t)
        THEN GateResult(FALSE, "soft_challenge", softItem.cds, softItem.created)
        ELSE GateResult(TRUE, "allow", clean, FALSE)

\* check_rapid_bidding(user, item, bid_amount): the action it returns and the
\* BidCooldown table it leaves (cleanup_expired and the rows it creates).
CheckRapidBidding(cds, id, bs, u, it, amount, t) ==
    LET clean == CleanupExpired(cds, t)
        existing == GetActiveCooldown(cds, u, TRUE, t)
        endgame == IsAuctionEndgame(it, t)
        soft2 == CheckWindow(bs, u, t, RAPID_BID_SOFT_WINDOW_2MIN * 60,
                             Threshold(RAPID_BID_SOFT_THRESHOLD_2MIN, endgame))
        soft5 == CheckWindow(bs, u, t, RAPID_BID_SOFT_WINDOW_5MIN * 60,
                             Threshold(RAPID_BID_SOFT_THRESHOLD_5MIN, endgame))
        hard5 == CheckWindow(bs, u, t, RAPID_BID_HARD_WINDOW_5MIN * 60,
                             Threshold(RAPID_BID_HARD_THRESHOLD_5MIN, endgame))
        hard20 == CheckWindow(bs, u, t, RAPID_BID_HARD_WINDOW_20SEC,
                              Threshold(RAPID_BID_HARD_THRESHOLD_20SEC, endgame))
        softItem == CreateSoftChallenge(clean, id, u, "item", t)
        softGlobal == CreateSoftChallenge(clean, id, u, "global", t)
    IN  IF existing.cooldown_type = "soft_challenge" /\ ~existing.captcha_passed
        THEN GateResult(FALSE, "soft_challenge", clean, FALSE)
        ELSE IF existing.cooldown_type \in {"hard_cooldown", "suspended"}
        THEN GateResult(FALSE, existing.cooldown_type, clean, FALSE)
        ELSE IF soft2.exceeded \/ soft5.exceeded
        THEN GateResult(FALSE, IF softItem.escalated THEN "hard_cooldown" ELSE "soft_challenge",
                        softItem.cds, softItem.created)
        ELSE IF hard5.exceeded \/ hard20.exceeded
        THEN GateResult(FALSE, "hard_cooldown",
                        CreateHardCooldown(clean, id, u, "item", RAPID_BID_COOLDOWN_DURATION, t),
                        TRUE)
        ELSE IF CheckGlobalVelocity(bs, u, t, GLOBAL_VELOCITY_SOFT_WINDOW_MINUTES,
                                    GLOBAL_VELOCITY_SOFT_THRESHOLD_BIDS,
                                    GLOBAL_VELOCITY_SOFT_THRESHOLD_AUCTIONS)
        THEN GateResult(FALSE, "soft_challenge", softGlobal.cds, softGlobal.created)
        ELSE IF CheckGlobalVelocity(bs, u, t, GLOBAL_VELOCITY_HARD_WINDOW_MINUTES,
                                    GLOBAL_VELOCITY_HARD_THRESHOLD_BIDS,
                                    GLOBAL_VELOCITY_HARD_THRESHOLD_AUCTIONS)
        THEN GateResult(FALSE, "hard_cooldown",
                        CreateHardCooldown(clean, id, u, "global",
                                           RAPID_BID_COOLDOWN_DURATION * 2, t),
                        TRUE)
        ELSE IF CheckMinimumIncrementPattern(bs, u, it, amount, t)
        THEN GateResult(FALSE, "soft_challenge", softItem.cds, softItem.created)
        ELSE GateResult(TRUE, "allow", clean, FALSE)

\* pass_captcha_challenge(user, item): only a row of that very item matches
PassCaptchaChallenge(cds, u) ==
    LET match == { c \in cds : /\ c.user = u
                               /\ c.scope = "item"
                               /\ c.cooldown_type = "soft_challenge"
                               /\ c.is_active
                               /\ c.captcha_required }
        hit == CHOOSE c \in match : \A d \in match : d.id <= c.id
    IN  IF match = {} THEN cds
        ELSE (cds \ {hit}) \cup {[hit EXCEPT !.captcha_passed = TRUE, !.is_active = FALSE]}

\* fail_captcha_challenge giving up one wrong answer later
FailCaptchaChallengeLate(cds, id, u, t) ==
    LET match == { c \in cds : /\ c.user = u
                               /\ c.scope = "item"
                               /\ c.cooldown_type = "soft_challenge"
                               /\ c.is_active }
        hit == CHOOSE c \in match : \A d \in match : d.id <= c.id
        failed == hit.failed_attempts + 1
    IN  IF match = {} THEN [cds |-> cds, created |-> FALSE]
        ELSE IF failed > MAX_FAILED_ATTEMPTS
        THEN [cds |-> CreateHardCooldown(
                          (cds \ {hit}) \cup {[hit EXCEPT !.failed_attempts = failed,
                                                          !.is_active = FALSE]},
                          id, u, "item", RAPID_BID_COOLDOWN_DURATION * 3, t),
              created |-> TRUE]
        ELSE [cds |-> (cds \ {hit}) \cup {[hit EXCEPT !.failed_attempts = failed]},
              created |-> FALSE]

\* fail_captcha_challenge(user, item): [cds, created]
FailCaptchaChallenge(cds, id, u, t) ==
    LET match == { c \in cds : /\ c.user = u
                               /\ c.scope = "item"
                               /\ c.cooldown_type = "soft_challenge"
                               /\ c.is_active }
        hit == CHOOSE c \in match : \A d \in match : d.id <= c.id
        failed == hit.failed_attempts + 1
    IN  IF match = {} THEN [cds |-> cds, created |-> FALSE]
        ELSE IF failed >= MAX_FAILED_ATTEMPTS
        THEN [cds |-> CreateHardCooldown(
                          (cds \ {hit}) \cup {[hit EXCEPT !.failed_attempts = failed,
                                                          !.is_active = FALSE]},
                          id, u, "item", RAPID_BID_COOLDOWN_DURATION * 3, t),
              created |-> TRUE]
        ELSE [cds |-> (cds \ {hit}) \cup {[hit EXCEPT !.failed_attempts = failed]},
              created |-> FALSE]

----------------------------------------------------------------------------
(* FraudDetectionService (auctions/fraud_detection.py) *)

Alert(type, severity) == [alert_type |-> type, severity |-> severity]

\* detect_new_account_high_value
DetectNewAccountHighValue(u, amount) ==
    IF profile[u].account_age_days < MIN_ACCOUNT_AGE_FOR_HIGH_BIDS
       /\ amount >= HIGH_VALUE_BID_THRESHOLD
    THEN {Alert("new_account_high_value", "high")} ELSE {}

\* detect_self_bidding
DetectSelfBidding(u) ==
    IF u = Seller THEN {Alert("self_bidding", "critical")} ELSE {}

\* detect_shill_bidding_patterns: the seller-affinity ratio is over the user's
\* bids on all auctions; profile[u].shill says whether that history meets it.
DetectShillBiddingPatterns(u) ==
    IF profile[u].shill THEN {Alert("shill_bidding_seller_affinity", "critical")} ELSE {}

\* detect_bid_pattern_anomaly on a Bid model whose rows could be ordered by
\* created_at: the detector returns
DetectBidPatternAnomalyReturns == FALSE

\* detect_bid_pattern_anomaly orders the Bid rows by created_at.  Bid has no
\* such field (its time is bid_time), so the ORM raises FieldError whenever the
\* detector runs: TRUE is "raises".
DetectBidPatternAnomalyRaises == TRUE

\* analyze_bid: the detectors run in order, then every alert is saved and the
\* list returned.  An exception of a detector leaves before any alert is saved.
AnalyzeBid(u, amount) ==
    IF DetectBidPatternAnomalyRaises
    THEN [raised |-> TRUE, alerts |-> {}]
    ELSE [raised |-> FALSE,
          alerts |-> DetectNewAccountHighValue(u, amount) \cup DetectSelfBidding(u)
                     \cup DetectShillBiddingPatterns(u)]

\* The FraudAlert rows analyze_bid saves for bid id.
AlertRows(u, amount, id) ==
    { [user |-> u, bid |-> id, alert_type |-> al.alert_type, severity |-> al.severity,
       is_resolved |-> FALSE] : al \in AnalyzeBid(u, amount).alerts }

\* place_bid, step 4: whether the analysis blocks the bid.  An exception is
\* caught and logged, and leaves fraud_blocked false.
FraudBlocked(u, amount) ==
    /\ ~AnalyzeBid(u, amount).raised
    /\ ~BypassFraud(u)
    /\ \E al \in AnalyzeBid(u, amount).alerts : al.severity = "critical"

\* verify_captcha: it deletes the bid on any critical alert, bypass or not.
CaptchaFraudBlocked(u, amount) ==
    /\ ~AnalyzeBid(u, amount).raised
    /\ \E al \in AnalyzeBid(u, amount).alerts : al.severity = "critical"

----------------------------------------------------------------------------
(* Initial state *)

Regular == [is_superuser |-> FALSE, bypass_all_restrictions |-> FALSE,
            bypass_rapid_bidding_check |-> FALSE, bypass_account_age_check |-> FALSE,
            bypass_fraud_detection |-> FALSE, account_age_days |-> 30, shill |-> FALSE]

NewShill == [Regular EXCEPT !.account_age_days = 1, !.shill = TRUE]

\* an account younger than MIN_ACCOUNT_AGE_FOR_HIGH_BIDS
NewAccount == [Regular EXCEPT !.account_age_days = 1]

Trusted == [Regular EXCEPT !.bypass_all_restrictions = TRUE]

NoHistory == [bids |-> 0, auctions |-> 0, time |-> 0]

\* Nine bids on three other auctions at time 0.
BusyHistory == [bids |-> 9, auctions |-> 3, time |-> 0]

\* The deployments and histories the item starts in: whether the database has
\* row locks, what bidder a did on other auctions before and the cooldown that
\* left, and whether a is a new account with a shill history.
Scenario(locks, history, cds, pa) ==
    [dbRowLocks |-> locks,
     other |-> [u \in Users |-> IF u = "a" THEN history ELSE NoHistory],
     cooldowns |-> cds,
     profile |-> [u \in Users |-> IF u = "a" THEN pa
                                  ELSE IF u = "b" THEN Trusted ELSE Regular]]

Scenarios ==
    { Scenario(FALSE, NoHistory, {}, Regular),
      Scenario(TRUE, NoHistory, {}, Regular),
      Scenario(FALSE, BusyHistory, {}, Regular),
      Scenario(FALSE, NoHistory,
               {NewCooldown(1, "a", "global", "hard_cooldown",
                            RAPID_BID_COOLDOWN_DURATION * 2, 0, FALSE)},
               Regular),
      Scenario(FALSE, NoHistory, {}, NewShill) }

InitialItem == [status |-> "active", current_price |-> 1, min_increment |-> 2,
                buy_now_price |-> 20, end_time |-> 600, bid_count |-> 0,
                winner |-> NoUser]

InitialWallet == [u \in Users |-> IF u = Seller THEN 0 ELSE 20]

Init ==
    /\ item = InitialItem
    /\ bids = {}
    /\ nextBid = 1
    /\ \E sc \in Scenarios : /\ other = sc.other
                             /\ cooldowns = sc.cooldowns
                             /\ profile = sc.profile
                             /\ dbRowLocks = sc.dbRowLocks
    /\ nextCd = 2
    /\ ws = InitialWs
    /\ payment = InitialPayment
    /\ txlog = InitialTxlog
    /\ otp = InitialOtp
    /\ alerts = {}
    /\ session = [u \in Users |-> NoStash]
    /\ ussd = NoUssd
    /\ wallet = InitialWallet
    /\ procs = [p \in Slots |-> Idle]
    /\ now = 0
    /\ requests = 0
    /\ commits = 0

----------------------------------------------------------------------------
(* Bid rows and the statements the admission paths share *)

\* history: whether a hard cooldown of user u covers the item at time t
HardCooled(cds, u, t) ==
    /\ ~BypassRapidBidding(u)
    /\ \E c \in cds : /\ c.user = u
                      /\ c.cooldown_type = "hard_cooldown"
                      /\ c.is_active
                      /\ t < c.expires_at

\* current_price + min_increment of an item as a request read it
MinBid(it) == it.current_price + it.min_increment

\* A Bid row; via and floor are history: the entry point that wrote the row,
\* and the minimum bid of the item that entry point had read.
NewBid(id, u, amount, winning, t, via, floor) ==
    [id |-> id, bidder |-> u, amount |-> amount, bid_time |-> t,
     is_winning |-> winning, via |-> via, floor |-> floor]

\* Bid.objects.filter(item=item).update(is_winning=False)
ClearWinning(bs) == { [b EXCEPT !.is_winning = FALSE] : b \in bs }

\* item.bids.order_by('-amount').first(): a row of the highest amount
HighestBids(bs) == { b \in bs : \A c \in bs : c.amount <= b.amount }

\* highest_bid.is_winning = True; highest_bid.save(update_fields=['is_winning'])
MarkWinning(bs, id) == { IF b.id = id THEN [b EXCEPT !.is_winning = TRUE] ELSE b : b \in bs }

----------------------------------------------------------------------------
(* place_bid (auctions/views.py) *)

\* clean_amount without its minimum-increment check
CleanAmountNoIncrement(it, amount) ==
    IF amount <= it.current_price THEN "not_higher" ELSE "ok"

\* PlaceBidForm.clean_amount (auctions/forms.py)
CleanAmount(it, amount) ==
    IF amount <= it.current_price THEN "not_higher"
    ELSE IF amount < it.current_price + it.min_increment THEN "below_minimum"
    ELSE "ok"

\* The structural checks of place_bid, in the order of the code.
PlaceBidValidation(it, u, amount, t) ==
    IF u = Seller THEN "own_item"
    ELSE IF it.status # "active" THEN "not_active"
    ELSE IF it.end_time <= t THEN "ended"
    ELSE CleanAmount(it, amount)

\* the account-age rule for high-value bids
AccountAgeBlocked(u, amount) ==
    /\ ~BypassAccountAge(u)
    /\ amount > HIGH_VALUE_BID_THRESHOLD
    /\ profile[u].account_age_days < MIN_ACCOUNT_AGE_FOR_HIGH_BIDS

\* place_bid letting an exception of the analysis reject the bid
ShouldRejectBidOnError(u, amount, gated, gate) ==
    IF gated /\ ~gate.allowed THEN gate.action
    ELSE IF AccountAgeBlocked(u, amount) THEN "account_age"
    ELSE IF FraudBlocked(u, amount) \/ AnalyzeBid(u, amount).raised THEN "fraud"
    ELSE "no"

\* Why place_bid rejects a bid it has saved: the gate's action, the account
\* age, or a blocking fraud analysis; "no" when it commits the bid.
ShouldRejectBid(u, amount, gated, gate) ==
    IF gated /\ ~gate.allowed THEN gate.action
    ELSE IF AccountAgeBlocked(u, amount) THEN "account_age"
    ELSE IF FraudBlocked(u, amount) THEN "fraud"
    ELSE "no"

\* The request up to the fraud analysis: load the item, validate, run the
\* rapid-bidding gate (stashing the bid on a soft challenge), check the account
\* age, and then in every case save the bid and analyse it.
PlaceBid(p, u, amount) ==
    LET v == PlaceBidValidation(item, u, amount, now)
        gate == CheckRapidBidding(cooldowns, nextCd, bids, u, item, amount, now)
        gated == v = "ok" /\ ~BypassRapidBidding(u)
        reject == ShouldRejectBid(u, amount, gated, gate)
        pr == [Idle EXCEPT !.kind = "place_bid", !.user = u, !.amount = amount,
                           !.cooled = HardCooled(cooldowns, u, now)]
    IN  /\ Free(p)
        /\ requests' = requests + 1
        /\ cooldowns' = IF gated THEN gate.cds ELSE cooldowns
        /\ nextCd' = IF gated /\ gate.created THEN nextCd + 1 ELSE nextCd
        /\ session' = IF gated /\ gate.action = "soft_challenge"
                      THEN [session EXCEPT ![u] = [present |-> TRUE, amount |-> amount,
                                                   timestamp |-> now, show_captcha |-> TRUE]]
                      ELSE session
        /\ IF v # "ok"
           THEN /\ procs' = [procs EXCEPT ![p] = Done(pr, v)]
                /\ UNCHANGED <<bids, nextBid, alerts>>
           ELSE /\ nextBid' = nextBid + 1
                /\ alerts' = alerts \cup AlertRows(u, amount, nextBid)
                /\ bids' = bids \cup {NewBid(nextBid, u, amount, FALSE, now, "place_bid",
                                             MinBid(item))}
                /\ procs' = [procs EXCEPT ![p] =
                                [pr EXCEPT !.pc = IF reject = "no" THEN "commit" ELSE "delete",
                                           !.reject = reject, !.bid = nextBid, !.snap = item]]
        /\ UNCHANGED <<item, ussd, wallet, now, commits, profile, other, dbRowLocks, ws, payment, txlog, otp>>

\* if should_reject_bid: bid.delete()
PlaceBidDelete(p) ==
    /\ procs[p].kind = "place_bid"
    /\ procs[p].pc = "delete"
    /\ bids' = { b \in bids : b.id # procs[p].bid }
    /\ procs' = [procs EXCEPT ![p] = Done(procs[p], procs[p].reject)]
    /\ UNCHANGED <<item, nextBid, cooldowns, nextCd, alerts, session, ussd, wallet, now,
                   requests, commits, profile, other, dbRowLocks, ws, payment, txlog, otp>>

\* Bid.objects.filter(item=item).update(is_winning=False), then
\* highest_bid = item.bids.order_by('-amount').first()
CommitHighest(p) ==
    /\ procs[p].pc = "commit"
    /\ \E h \in HighestBids(bids) :
          procs' = [procs EXCEPT ![p].pc = "mark", ![p].highest = h.id,
                                 ![p].high_amount = h.amount]
    /\ bids' = ClearWinning(bids)
    /\ UNCHANGED <<item, nextBid, cooldowns, nextCd, alerts, session, ussd, wallet, now,
                   requests, commits, profile, other, dbRowLocks, ws, payment, txlog, otp>>

\* highest_bid.save(update_fields=['is_winning']), item.current_price =
\* highest_bid.amount, item.bid_count += 1 on the item loaded at the start, and
\* item.save(update_fields=['current_price', 'bid_count']).  The save of a row
\* that was deleted meanwhile raises DatabaseError and ends the request.
CommitItem(p) ==
    /\ procs[p].pc = "mark"
    /\ IF BidExists(procs[p].highest)
       THEN /\ bids' = MarkWinning(bids, procs[p].highest)
            /\ item' = [item EXCEPT !.current_price = procs[p].high_amount,
                                    !.bid_count = procs[p].snap.bid_count + 1]
            /\ commits' = commits + 1
            /\ procs' = [procs EXCEPT ![p] =
                            Done([procs[p] EXCEPT
                                     !.cooled = @ /\ HardCooled(cooldowns, procs[p].user, now)],
                                 "committed")]
       ELSE /\ procs' = [procs EXCEPT ![p] = Done(procs[p], "error")]
            /\ UNCHANGED <<bids, item, commits>>

PlaceBidHighest(p) ==
    /\ procs[p].kind = "place_bid"
    /\ CommitHighest(p)

PlaceBidCommit(p) ==
    /\ procs[p].kind = "place_bid"
    /\ CommitItem(p)
    /\ UNCHANGED <<nextBid, cooldowns, nextCd, alerts, session, ussd, wallet, now,
                   requests, profile, other, dbRowLocks, ws, payment, txlog, otp>>

----------------------------------------------------------------------------
(* verify_captcha (auctions/views.py) *)

\* the checks of the resume without the age of the stash
VerifyCaptchaValidationNoExpiry(it, stash, t) ==
    IF ~stash.present THEN "no_pending"
    ELSE IF stash.amount < it.current_price + it.min_increment THEN "below_minimum"
    ELSE IF it.status # "active" THEN "not_active"
    ELSE IF it.end_time <= t THEN "ended"
    ELSE "ok"

\* The checks of the resume on the stashed bid, in the order of the code.
VerifyCaptchaValidation(it, stash, t) ==
    IF ~stash.present THEN "no_pending"
    ELSE IF t - stash.timestamp > PENDING_BID_MAX_AGE THEN "expired"
    ELSE IF stash.amount < it.current_price + it.min_increment THEN "below_minimum"
    ELSE IF it.status # "active" THEN "not_active"
    ELSE IF it.end_time <= t THEN "ended"
    ELSE "ok"

\* A wrong answer: fail_captcha_challenge(user, item).
VerifyCaptchaWrong(p, u) ==
    LET failed == FailCaptchaChallenge(cooldowns, nextCd, u, now)
        pr == [Idle EXCEPT !.kind = "verify_captcha", !.user = u]
    IN  /\ Free(p)
        /\ requests' = requests + 1
        /\ cooldowns' = failed.cds
        /\ nextCd' = IF failed.created THEN nextCd + 1 ELSE nextCd
        /\ procs' = [procs EXCEPT ![p] = Done(pr, "captcha_failed")]
        /\ UNCHANGED <<item, bids, nextBid, alerts, session, ussd, wallet, now, commits,
                       profile, other, dbRowLocks, ws, payment, txlog, otp>>

\* A correct answer, up to the fraud analysis: take the stashed bid, revalidate
\* it, save the bid, analyse it, delete it on a critical alert, and otherwise
\* pass_captcha_challenge(user, item).
VerifyCaptcha(p, u) ==
    LET stash == session[u]
        v == VerifyCaptchaValidation(item, stash, now)
        pr == [Idle EXCEPT !.kind = "verify_captcha", !.user = u, !.amount = stash.amount,
                           !.cooled = HardCooled(cooldowns, u, now)]
    IN  /\ Free(p)
        /\ requests' = requests + 1
        /\ IF v # "ok"
           THEN /\ session' = [session EXCEPT ![u] = NoStash]
                /\ procs' = [procs EXCEPT ![p] = Done(pr, v)]
                /\ UNCHANGED <<bids, nextBid, alerts, cooldowns>>
           ELSE /\ nextBid' = nextBid + 1
                /\ alerts' = alerts \cup AlertRows(u, stash.amount, nextBid)
                /\ IF CaptchaFraudBlocked(u, stash.amount)
                   THEN /\ bids' = bids
                        /\ session' = [session EXCEPT ![u] = NoStash]
                        /\ cooldowns' = cooldowns
                        /\ procs' = [procs EXCEPT ![p] = Done(pr, "fraud")]
                   ELSE /\ bids' = bids \cup {NewBid(nextBid, u, stash.amount, FALSE, now,
                                                     "verify_captcha", MinBid(item))}
                        /\ session' = session
                        /\ cooldowns' = PassCaptchaChallenge(cooldowns, u)
                        /\ procs' = [procs EXCEPT ![p] =
                                        [pr EXCEPT !.pc = "commit", !.bid = nextBid,
                                                   !.snap = item]]
        /\ UNCHANGED <<item, nextCd, ussd, wallet, now, commits, profile, other, dbRowLocks, ws, payment, txlog, otp>>

VerifyCaptchaHighest(p) ==
    /\ procs[p].kind = "verify_captcha"
    /\ CommitHighest(p)

\* the commit, then the session keys of the stash are deleted
VerifyCaptchaCommit(p) ==
    /\ procs[p].kind = "verify_captcha"
    /\ CommitItem(p)
    /\ session' = IF BidExists(procs[p].highest)
                  THEN [session EXCEPT ![procs[p].user] = NoStash]
                  ELSE session
    /\ UNCHANGED <<nextBid, cooldowns, nextCd, alerts, ussd, wallet, now,
                   requests, profile, other, dbRowLocks, ws, payment, txlog, otp>>

----------------------------------------------------------------------------
(* AuctionConsumer.create_bid (auctions/consumers.py) *)

\* The checks of create_bid, in the order of the code.
CreateBidValidation(it, u, amount, t) ==
    IF it.status # "active" THEN "not_active"
    ELSE IF it.end_time <= t THEN "ended"
    ELSE IF u = Seller THEN "own_item"
    ELSE IF amount < it.current_price + it.min_increment THEN "below_minimum"
    ELSE "ok"

\* Item.objects.select_for_update().get(id=...) runs outside any transaction:
\* a backend with row locks refuses it, the others ignore the lock.  Then the
\* checks; an auction past its end is saved as expired; a valid bid clears the
\* winning flag of the item's bids.
CreateBid(p, u, amount) ==
    LET v == CreateBidValidation(item, u, amount, now)
        pr == [Idle EXCEPT !.kind = "create_bid", !.user = u, !.amount = amount,
                           !.cooled = HardCooled(cooldowns, u, now)]
    IN  /\ Free(p)
        /\ requests' = requests + 1
        /\ IF dbRowLocks
           THEN /\ procs' = [procs EXCEPT ![p] = Done(pr, "error")]
                /\ UNCHANGED <<item, bids>>
           ELSE IF v = "ended"
           THEN /\ item' = [item EXCEPT !.status = "expired"]
                /\ procs' = [procs EXCEPT ![p] = Done(pr, v)]
                /\ UNCHANGED bids
           ELSE IF v # "ok"
           THEN /\ procs' = [procs EXCEPT ![p] = Done(pr, v)]
                /\ UNCHANGED <<item, bids>>
           ELSE /\ bids' = { IF b.is_winning THEN [b EXCEPT !.is_winning = FALSE] ELSE b :
                             b \in bids }
                /\ procs' = [procs EXCEPT ![p] = [pr EXCEPT !.pc = "insert", !.snap = item]]
                /\ UNCHANGED item
        /\ UNCHANGED <<nextBid, cooldowns, nextCd, alerts, session, ussd, wallet, now,
                       commits, profile, other, dbRowLocks, ws, payment, txlog, otp>>

\* Bid.objects.create(..., is_winning=True, payment_method='websocket')
CreateBidInsert(p) ==
    /\ procs[p].kind = "create_bid"
    /\ procs[p].pc = "insert"
    /\ bids' = bids \cup {NewBid(nextBid, procs[p].user, procs[p].amount, TRUE, now,
                                 "create_bid", MinBid(procs[p].snap))}
    /\ nextBid' = nextBid + 1
    /\ procs' = [procs EXCEPT ![p].pc = "save", ![p].bid = nextBid]
    /\ UNCHANGED <<item, cooldowns, nextCd, alerts, session, ussd, wallet, now,
                   requests, commits, profile, other, dbRowLocks, ws, payment, txlog, otp>>

\* item.current_price = bid_amount; item.bid_count += 1; item.save(): every
\* field of the item loaded at the start is written back.
CreateBidSave(p) ==
    /\ procs[p].kind = "create_bid"
    /\ procs[p].pc = "save"
    /\ item' = [procs[p].snap EXCEPT !.current_price = procs[p].amount,
                                     !.bid_count = procs[p].snap.bid_count + 1]
    /\ commits' = commits + 1
    /\ procs' = [procs EXCEPT ![p] =
                    Done([procs[p] EXCEPT !.cooled = @ /\ HardCooled(cooldowns, procs[p].user, now)],
                         "committed")]
    /\ UNCHANGED <<bids, nextBid, cooldowns, nextCd, alerts, session, ussd, wallet, now,
                   requests, profile, other, dbRowLocks, ws, payment, txlog, otp>>

----------------------------------------------------------------------------
(* The USSD bid flow (payments/ussd_views.py) *)

\* handle_bid_entry: an amount not above the price of the selected item is
\* asked for again; any other amount is kept in the session row.
UssdBidEntry(u, amount) ==
    /\ ussd.stage = "none"
    /\ amount > item.current_price
    /\ ussd' = [stage |-> "bid_entry", user |-> u, bid_amount |-> amount]
    /\ UNCHANGED <<item, bids, nextBid, cooldowns, nextCd, alerts, session, wallet, procs,
                   now, requests, commits, profile, other, dbRowLocks, ws, payment, txlog, otp>>

\* handle_pin_entry and the first statement of handle_bid_confirmation:
\* session.selected_item is loaded and Bid.objects.create(...) stores the
\* amount of the session row.
UssdBidConfirmation(p) ==
    /\ Free(p)
    /\ ussd.stage = "bid_entry"
    /\ requests' = requests + 1
    /\ ussd' = [ussd EXCEPT !.stage = "pin_entry"]
    /\ bids' = bids \cup {NewBid(nextBid, ussd.user, ussd.bid_amount, FALSE, now, "ussd",
                                 MinBid(item))}
    /\ nextBid' = nextBid + 1
    /\ procs' = [procs EXCEPT ![p] =
                    [Idle EXCEPT !.kind = "ussd_bid", !.pc = "save", !.user = ussd.user,
                                 !.amount = ussd.bid_amount, !.bid = nextBid, !.snap = item,
                                 !.cooled = HardCooled(cooldowns, ussd.user, now)]]
    /\ UNCHANGED <<item, cooldowns, nextCd, alerts, session, wallet, now, commits,
                   profile, other, dbRowLocks, ws, payment, txlog, otp>>

\* session.selected_item.current_price = session.bid_amount;
\* session.selected_item.save(): every field of the loaded item is written.
UssdBidSave(p) ==
    /\ procs[p].kind = "ussd_bid"
    /\ procs[p].pc = "save"
    /\ item' = [procs[p].snap EXCEPT !.current_price = procs[p].amount]
    /\ commits' = commits + 1
    /\ ussd' = [ussd EXCEPT !.stage = "completed"]
    /\ procs' = [procs EXCEPT ![p] =
                    Done([procs[p] EXCEPT !.cooled = @ /\ HardCooled(cooldowns, procs[p].user, now)],
                         "committed")]
    /\ UNCHANGED <<bids, nextBid, cooldowns, nextCd, alerts, session, wallet, now,
                   requests, profile, other, dbRowLocks, ws, payment, txlog, otp>>

----------------------------------------------------------------------------
(* Buy-now: buy_now (auctions/views.py), handle_buy_now_confirmation (USSD) *)

\* The checks of buy_now before its transaction, in the order of the code.
BuyNowValidation(it, bs, u, balance, t) ==
    IF it.status # "active" THEN "not_active"
    ELSE IF it.end_time <= t THEN "ended"
    ELSE IF it.buy_now_price = 0 THEN "no_buy_now"
    ELSE IF u = Seller THEN "own_item"
    ELSE IF bs # {} THEN "bidding_started"
    ELSE IF balance < it.buy_now_price THEN "insufficient"
    ELSE "ok"

\* The checks of handle_buy_now_confirmation before its transaction.
UssdBuyNowValidation(it, bs, balance) ==
    IF it.buy_now_price = 0 \/ bs # {} THEN "bidding_started"
    ELSE IF balance < it.buy_now_price THEN "insufficient"
    ELSE "ok"

\* an update that matches whatever the row holds
ConditionalUpdateAlways(it) == TRUE

\* The row filter of the conditional update: status='active', winner__isnull=True
ConditionalUpdateMatches(it) == it.status = "active" /\ it.winner = NoUser

\* the platform tax on the buy-now price
PlatformTax(price) == (price * TAX_PERCENT) \div 100

\* The buyer's wallet is saved from the balance read before the transaction;
\* the seller's wallet is read inside it.
PurchaseWallets(w, u, balance, price) ==
    LET debited == [w EXCEPT ![u] = balance - price]
    IN  [debited EXCEPT ![Seller] = debited[Seller] + (price - PlatformTax(price))]

BuyNowChecks(p, u, kind, v) ==
    LET pr == [Idle EXCEPT !.kind = kind, !.user = u, !.seen = item.status]
    IN  /\ requests' = requests + 1
        /\ procs' = [procs EXCEPT ![p] =
                        IF v = "ok"
                        THEN [pr EXCEPT !.pc = "purchase", !.snap = item, !.wbal = wallet[u]]
                        ELSE Done(pr, v)]
        /\ UNCHANGED <<item, bids, nextBid, cooldowns, nextCd, alerts, session, ussd, wallet,
                       now, commits, profile, other, dbRowLocks, ws, payment, txlog, otp>>

\* The transaction: the conditional update and, when it changed the row, the
\* wallet movements; zero rows updated is "Someone else just purchased".
Purchase(p) ==
    /\ procs[p].pc = "purchase"
    /\ IF ConditionalUpdateMatches(item)
       THEN /\ item' = [item EXCEPT !.status = "sold", !.winner = procs[p].user]
            /\ wallet' = PurchaseWallets(wallet, procs[p].user, procs[p].wbal,
                                         procs[p].snap.buy_now_price)
            /\ procs' = [procs EXCEPT ![p] = Done(procs[p], "purchased")]
       ELSE /\ procs' = [procs EXCEPT ![p] = Done(procs[p], "already_purchased")]
            /\ UNCHANGED <<item, wallet>>
    /\ UNCHANGED <<bids, nextBid, cooldowns, nextCd, alerts, session, ussd, now, requests,
                   commits, profile, other, dbRowLocks, ws, payment, txlog, otp>>

BuyNow(p, u) ==
    /\ Free(p)
    /\ BuyNowChecks(p, u, "buy_now", BuyNowValidation(item, bids, u, wallet[u], now))

BuyNowPurchase(p) ==
    /\ procs[p].kind = "buy_now"
    /\ Purchase(p)

UssdBuyNow(p, u) ==
    /\ Free(p)
    /\ BuyNowChecks(p, u, "ussd_buy_now", UssdBuyNowValidation(item, bids, wallet[u]))

UssdBuyNowPurchase(p) ==
    /\ procs[p].kind = "ussd_buy_now"
    /\ Purchase(p)

----------------------------------------------------------------------------
(* change_item_status (auctions/views.py) *)

\* valid_statuses of change_item_status
ValidStatuses == {"active", "private", "off_sale", "sold"}

\* The seller posts a status: item.status = new_status;
\* item.save(update_fields=['status']), whatever the status was.
ChangeItemStatus(new_status) ==
    /\ item' = [item EXCEPT !.status = new_status]
    /\ UNCHANGED <<bids, nextBid, cooldowns, nextCd, alerts, session, ussd, wallet, procs,
                   now, requests, commits, profile, other, dbRowLocks, ws, payment, txlog, otp>>

----------------------------------------------------------------------------
(* Specifications *)

\* timezone.now() advances
Tick ==
    /\ \E d \in TickSteps : now + d <= MaxNow /\ now' = now + d
    /\ UNCHANGED <<item, bids, nextBid, cooldowns, nextCd, alerts, session, ussd, wallet,
                   procs, requests, commits, profile, other, dbRowLocks, ws, payment, txlog, otp>>

\* Every request on the item.
Next ==
    \/ \E p \in Slots, u \in Users, amount \in Amounts : PlaceBid(p, u, amount)
    \/ \E p \in Slots : PlaceBidDelete(p)
    \/ \E p \in Slots : PlaceBidHighest(p)
    \/ \E p \in Slots : PlaceBidCommit(p)
    \/ \E p \in Slots, u \in Bidders : VerifyCaptchaWrong(p, u)
    \/ \E p \in Slots, u \in Bidders : VerifyCaptcha(p, u)
    \/ \E p \in Slots : VerifyCaptchaHighest(p)
    \/ \E p \in Slots : VerifyCaptchaCommit(p)
    \/ \E p \in Slots, u \in Users, amount \in Amounts : CreateBid(p, u, amount)
    \/ \E p \in Slots : CreateBidInsert(p)
    \/ \E p \in Slots : CreateBidSave(p)
    \/ \E u \in Users, amount \in Amounts : UssdBidEntry(u, amount)
    \/ \E p \in Slots : UssdBidConfirmation(p)
    \/ \E p \in Slots : UssdBidSave(p)
    \/ \E p \in Slots, u \in Users : BuyNow(p, u)
    \/ \E p \in Slots : BuyNowPurchase(p)
    \/ \E p \in Slots, u \in Users : UssdBuyNow(p, u)
    \/ \E p \in Slots : UssdBuyNowPurchase(p)
    \/ Tick

Spec == Init /\ [][Next]_vars

\* The buy-now requests alone, on an item nobody bids on.
NextBuyNow ==
    \/ \E p \in Slots, u \in Users : BuyNow(p, u)
    \/ \E p \in Slots : BuyNowPurchase(p)
    \/ \E p \in Slots, u \in Users : UssdBuyNow(p, u)
    \/ \E p \in Slots : UssdBuyNowPurchase(p)
    \/ Tick

SpecBuyNow == Init /\ [][NextBuyNow]_vars

\* The three paths that admit a bid against the minimum price
\* (place_bid, verify_captcha and the consumer's create_bid), on their own.
NextBid ==
    \/ \E p \in Slots, u \in Users, amount \in Amounts : PlaceBid(p, u, amount)
    \/ \E p \in Slots : PlaceBidDelete(p)
    \/ \E p \in Slots : PlaceBidHighest(p)
    \/ \E p \in Slots : PlaceBidCommit(p)
    \/ \E p \in Slots, u \in Bidders : VerifyCaptchaWrong(p, u)
    \/ \E p \in Slots, u \in Bidders : VerifyCaptcha(p, u)
    \/ \E p \in Slots : VerifyCaptchaHighest(p)
    \/ \E p \in Slots : VerifyCaptchaCommit(p)
    \/ \E p \in Slots, u \in Users, amount \in Amounts : CreateBid(p, u, amount)
    \/ \E p \in Slots : CreateBidInsert(p)
    \/ \E p \in Slots : CreateBidSave(p)
    \/ Tick

SpecBid == Init /\ [][NextBid]_vars

\* The life of the item's status: the seller's status changes and the buy-now
\* purchase, next to the bids of place_bid.
NextStatus ==
    \/ \E p \in Slots, u \in Users, amount \in Amounts : PlaceBid(p, u, amount)
    \/ \E p \in Slots : PlaceBidDelete(p)
    \/ \E p \in Slots : PlaceBidHighest(p)
    \/ \E p \in Slots : PlaceBidCommit(p)
    \/ \E p \in Slots, u \in Users : BuyNow(p, u)
    \/ \E p \in Slots : BuyNowPurchase(p)
    \/ \E new_status \in ValidStatuses : ChangeItemStatus(new_status)
    \/ Tick

SpecStatus == Init /\ [][NextStatus]_vars

----------------------------------------------------------------------------
(* The rapid-bidding gate on an item with a bidding history *)

\* k earlier bids of bidder a on the item, the latest `spacing` seconds ago and
\* each `spacing` seconds after the one before, each raising the price by inc.
\* They came through the consumer's create_bid, which asks no gate.
BidHistory(k, inc, spacing) ==
    { NewBid(i, "a", InitialItem.current_price + inc * i, i = k, 0 - spacing * (k - i + 1),
             "create_bid", InitialItem.current_price + inc * (i - 1) + InitialItem.min_increment) :
      i \in 1..k }

\* j soft challenges of bidder a on the item that a passed: the latest created
\* `age` seconds ago, each a second after the one before.
SoftHistory(j, age) ==
    { [NewCooldown(i, "a", "item", "soft_challenge",
                   0 - age - (j - i) + SOFT_CHALLENGE_MINUTES * 60, 0 - age - (j - i), TRUE)
          EXCEPT !.is_active = FALSE, !.captcha_passed = TRUE] :
      i \in 1..j }

\* seconds between the bids of a history
Spacings == {10, 40}

\* increments of a history: min_increment, and more than its tolerance
Increments == {InitialItem.min_increment, InitialItem.min_increment + 1}

\* end_time of the item: in the endgame window at time 0, and beyond it
EndTimes == {200, InitialItem.end_time}

\* age of the latest soft challenge: within the last hour, and before it
SoftAges == {300, ESCALATION_HOURS * 3600 + 100}

InitGate ==
    /\ \E k \in 0..MaxHistory, inc \in Increments, spacing \in Spacings, e \in EndTimes :
          /\ bids = BidHistory(k, inc, spacing)
          /\ nextBid = k + 1
          /\ commits = k
          /\ item = [InitialItem EXCEPT !.current_price = @ + inc * k, !.bid_count = k,
                                        !.end_time = e]
    /\ \E j \in 0..ESCALATION_COUNT, age \in SoftAges :
          /\ cooldowns = SoftHistory(j, age)
          /\ nextCd = j + 1
    /\ \E h \in {NoHistory, BusyHistory} :
          /\ h = BusyHistory => (bids = {} /\ cooldowns = {})
          /\ other = [u \in Users |-> IF u = "a" THEN h ELSE NoHistory]
    /\ \E pa \in {Regular, NewAccount} :
          profile = [u \in Users |-> IF u = "a" THEN pa
                                     ELSE IF u = "b" THEN Trusted ELSE Regular]
    /\ dbRowLocks = FALSE
    /\ ws = InitialWs
    /\ payment = InitialPayment
    /\ txlog = InitialTxlog
    /\ otp = InitialOtp
    /\ alerts = {}
    /\ session = [u \in Users |-> NoStash]
    /\ ussd = NoUssd
    /\ wallet = InitialWallet
    /\ procs = [p \in Slots |-> Idle]
    /\ now = 0
    /\ requests = 0

\* the amounts a bids next: the minimum bid, and one more
GateAmounts == {MinBid(item), MinBid(item) + 1}

NextGate ==
    \/ \E p \in Slots, amount \in GateAmounts : PlaceBid(p, "a", amount)
    \/ \E p \in Slots : PlaceBidDelete(p)
    \/ \E p \in Slots : PlaceBidHighest(p)
    \/ \E p \in Slots : PlaceBidCommit(p)
    \/ \E p \in Slots : VerifyCaptchaWrong(p, "a")
    \/ \E p \in Slots : VerifyCaptcha(p, "a")
    \/ \E p \in Slots : VerifyCaptchaHighest(p)
    \/ \E p \in Slots : VerifyCaptchaCommit(p)
    \/ Tick

SpecGate == InitGate /\ [][NextGate]_vars

----------------------------------------------------------------------------
(* The CAPTCHA resume of a stashed bid *)

\* amounts of the stashed bid
StashAmounts == {3, MaxAmount}

\* The state a soft-challenged place_bid of bidder a leaves at time 0: a, with
\* nine recent bids on three other auctions, bid `amount`; the gate created a
\* global soft challenge, the bid was stashed in the session, saved and deleted.
InitResume ==
    /\ item = InitialItem
    /\ bids = {}
    /\ nextBid = 2
    /\ other = [u \in Users |-> IF u = "a" THEN BusyHistory ELSE NoHistory]
    /\ profile = [u \in Users |-> IF u = "b" THEN Trusted ELSE Regular]
    /\ dbRowLocks = FALSE
    /\ ws = InitialWs
    /\ payment = InitialPayment
    /\ txlog = InitialTxlog
    /\ otp = InitialOtp
    /\ cooldowns = {NewCooldown(1, "a", "global", "soft_challenge",
                                SOFT_CHALLENGE_MINUTES * 60, 0, TRUE)}
    /\ nextCd = 2
    /\ alerts = {}
    /\ \E amount \in StashAmounts :
          session = [u \in Users |-> IF u = "a"
                                     THEN [present |-> TRUE, amount |-> amount,
                                           timestamp |-> 0, show_captcha |-> TRUE]
                                     ELSE NoStash]
    /\ ussd = NoUssd
    /\ wallet = InitialWallet
    /\ procs = [p \in Slots |-> Idle]
    /\ now = 0
    /\ requests = 0
    /\ commits = 0

NextResume ==
    \/ \E p \in Slots, u \in Users, amount \in Amounts : PlaceBid(p, u, amount)
    \/ \E p \in Slots : PlaceBidDelete(p)
    \/ \E p \in Slots : PlaceBidHighest(p)
    \/ \E p \in Slots : PlaceBidCommit(p)
    \/ \E p \in Slots, u \in Bidders : VerifyCaptcha(p, u)
    \/ \E p \in Slots : VerifyCaptchaHighest(p)
    \/ \E p \in Slots : VerifyCaptchaCommit(p)
    \/ Tick

SpecResume == InitResume /\ [][NextResume]_vars

----------------------------------------------------------------------------
(* The life of a soft challenge *)

\* scopes of a BidCooldown row: of the item, or item = NULL
Scopes == {"item", "global"}

\* end_time of the item: when the soft challenge expires, and after it
LateEndTimes == {InitialItem.end_time, InitialItem.end_time + 300}

\* The state a soft-challenged place_bid of bidder a leaves at time 0, after
\* `failed` wrong CAPTCHA answers.  An item-scoped challenge: a had four bids
\* on the item in the last two minutes and the fifth breached the soft window.
\* A global challenge: a had nine bids on three other auctions.  The bid was
\* stashed in the session, saved and deleted.
InitChallenge ==
    /\ \E scope \in Scopes, failed \in 0..(MAX_FAILED_ATTEMPTS - 1), inc \in Increments,
          e \in LateEndTimes :
          LET k == IF scope = "item" THEN RAPID_BID_SOFT_THRESHOLD_2MIN - 1 ELSE 0
              it == [InitialItem EXCEPT !.current_price = @ + inc * k, !.bid_count = k,
                                        !.end_time = e]
          IN  /\ bids = BidHistory(k, inc, 10)
              /\ nextBid = k + 2
              /\ commits = k
              /\ item = it
              /\ other = [u \in Users |-> IF u = "a" /\ scope = "global"
                                          THEN BusyHistory ELSE NoHistory]
              /\ cooldowns = {[NewCooldown(1, "a", scope, "soft_challenge",
                                           SOFT_CHALLENGE_MINUTES * 60, 0, TRUE)
                                  EXCEPT !.failed_attempts = failed]}
              /\ session = [u \in Users |-> IF u = "a"
                                            THEN [present |-> TRUE, amount |-> MinBid(it),
                                                  timestamp |-> 0, show_captcha |-> TRUE]
                                            ELSE NoStash]
    /\ nextCd = 2
    /\ profile = [u \in Users |-> IF u = "b" THEN Trusted ELSE Regular]
    /\ dbRowLocks = FALSE
    /\ ws = InitialWs
    /\ payment = InitialPayment
    /\ txlog = InitialTxlog
    /\ otp = InitialOtp
    /\ alerts = {}
    /\ ussd = NoUssd
    /\ wallet = InitialWallet
    /\ procs = [p \in Slots |-> Idle]
    /\ now = 0
    /\ requests = 0

NextChallenge ==
    \/ \E p \in Slots, u \in {"a"}, amount \in GateAmounts : PlaceBid(p, u, amount)
    \/ \E p \in Slots : PlaceBidDelete(p)
    \/ \E p \in Slots : PlaceBidHighest(p)
    \/ \E p \in Slots : PlaceBidCommit(p)
    \/ \E p \in Slots, u \in {"a"} : VerifyCaptchaWrong(p, u)
    \/ \E p \in Slots, u \in {"a"} : VerifyCaptcha(p, u)
    \/ \E p \in Slots : VerifyCaptchaHighest(p)
    \/ \E p \in Slots : VerifyCaptchaCommit(p)
    \/ Tick

SpecChallenge == InitChallenge /\ [][NextChallenge]_vars

----------------------------------------------------------------------------
(* check_rapid_bidding statement by statement: place_bid holds no lock and no
   transaction around it, so requests of one user interleave between its read
   of the governing cooldown and the rows it creates *)

\* check_rapid_bidding after get_active_cooldown returned nothing that blocks:
\* the window checks, in the order of the code, on the table as it is now.
CheckRapidBiddingWindows(cds, id, bs, u, it, amount, t) ==
    LET endgame == IsAuctionEndgame(it, t)
        soft2 == CheckWindow(bs, u, t, RAPID_BID_SOFT_WINDOW_2MIN * 60,
                             Threshold(RAPID_BID_SOFT_THRESHOLD_2MIN, endgame))
        soft5 == CheckWindow(bs, u, t, RAPID_BID_SOFT_WINDOW_5MIN * 60,
                             Threshold(RAPID_BID_SOFT_THRESHOLD_5MIN, endgame))
        hard5 == CheckWindow(bs, u, t, RAPID_BID_HARD_WINDOW_5MIN * 60,
                             Threshold(RAPID_BID_HARD_THRESHOLD_5MIN, endgame))
        hard20 == CheckWindow(bs, u, t, RAPID_BID_HARD_WINDOW_20SEC,
                              Threshold(RAPID_BID_HARD_THRESHOLD_20SEC, endgame))
        softItem == CreateSoftChallenge(cds, id, u, "item", t)
        softGlobal == CreateSoftChallenge(cds, id, u, "global", t)
    IN  IF soft2.exceeded \/ soft5.exceeded
        THEN GateResult(FALSE, IF softItem.escalated THEN "hard_cooldown" ELSE "soft_challenge",
                        softItem.cds, softItem.created)
        ELSE IF hard5.exceeded \/ hard20.exceeded
        THEN GateResult(FALSE, "hard_cooldown",
                        CreateHardCooldown(cds, id, u, "item", RAPID_BID_COOLDOWN_DURATION, t),
                        TRUE)
        ELSE IF CheckGlobalVelocity(bs, u, t, GLOBAL_VELOCITY_SOFT_WINDOW_MINUTES,
                                    GLOBAL_VELOCITY_SOFT_THRESHOLD_BIDS,
                                    GLOBAL_VELOCITY_SOFT_THRESHOLD_AUCTIONS)
        THEN GateResult(FALSE, "soft_challenge", softGlobal.cds, softGlobal.created)
        ELSE IF CheckGlobalVelocity(bs, u, t, GLOBAL_VELOCITY_HARD_WINDOW_MINUTES,
                                    GLOBAL_VELOCITY_HARD_THRESHOLD_BIDS,
                                    GLOBAL_VELOCITY_HARD_THRESHOLD_AUCTIONS)
        THEN GateResult(FALSE, "hard_cooldown",
                        CreateHardCooldown(cds, id, u, "global",
                                           RAPID_BID_COOLDOWN_DURATION * 2, t),
                        TRUE)
        ELSE IF CheckMinimumIncrementPattern(bs, u, it, amount, t)
        THEN GateResult(FALSE, "soft_challenge", softItem.cds, softItem.created)
        ELSE GateResult(TRUE, "allow", cds, FALSE)

\* place_bid up to get_active_cooldown: load the item, validate, and for a
\* bidder without bypass run cleanup_expired and read the governing cooldown;
\* reject keeps what the read answered.
PlaceBidRead(p, u, amount) ==
    LET v == PlaceBidValidation(item, u, amount, now)
        existing == GetActiveCooldown(cooldowns, u, TRUE, now)
        blocks == IF existing.cooldown_type = "soft_challenge" /\ ~existing.captcha_passed
                  THEN "soft_challenge"
                  ELSE IF existing.cooldown_type \in {"hard_cooldown", "suspended"}
                  THEN existing.cooldown_type
                  ELSE "no"
        pr == [Idle EXCEPT !.kind = "place_bid", !.user = u, !.amount = amount,
                           !.cooled = HardCooled(cooldowns, u, now)]
    IN  /\ Free(p)
        /\ ~BypassRapidBidding(u)
        /\ requests' = requests + 1
        /\ IF v # "ok"
           THEN /\ procs' = [procs EXCEPT ![p] = Done(pr, v)]
                /\ cooldowns' = cooldowns
           ELSE /\ procs' = [procs EXCEPT ![p] =
                                [pr EXCEPT !.pc = "gate", !.reject = blocks, !.snap = item]]
                /\ cooldowns' = CleanupExpired(cooldowns, now)
        /\ UNCHANGED <<item, bids, nextBid, nextCd, alerts, session, ussd, wallet, now,
                       commits, profile, other, dbRowLocks, ws, payment, txlog, otp>>

\* place_bid from the window checks to the fraud analysis: the rows the gate
\* creates, the stash on a soft challenge, the account age, bid.save() and the
\* analysis.
PlaceBidGate(p) ==
    LET u == procs[p].user
        amount == procs[p].amount
        gate == IF procs[p].reject # "no"
                THEN GateResult(FALSE, procs[p].reject, cooldowns, FALSE)
                ELSE CheckRapidBiddingWindows(cooldowns, nextCd, bids, u, procs[p].snap,
                                              amount, now)
        reject == ShouldRejectBid(u, amount, TRUE, gate)
    IN  /\ procs[p].kind = "place_bid"
        /\ procs[p].pc = "gate"
        /\ cooldowns' = gate.cds
        /\ nextCd' = IF gate.created THEN nextCd + 1 ELSE nextCd
        /\ session' = IF gate.action = "soft_challenge"
                      THEN [session EXCEPT ![u] = [present |-> TRUE, amount |-> amount,
                                                   timestamp |-> now, show_captcha |-> TRUE]]
                      ELSE session
        /\ nextBid' = nextBid + 1
        /\ alerts' = alerts \cup AlertRows(u, amount, nextBid)
        /\ bids' = bids \cup {NewBid(nextBid, u, amount, FALSE, now, "place_bid",
                                     MinBid(procs[p].snap))}
        /\ procs' = [procs EXCEPT ![p].pc = IF reject = "no" THEN "commit" ELSE "delete",
                                  ![p].reject = reject, ![p].bid = nextBid]
        /\ UNCHANGED <<item, ussd, wallet, now, requests, commits, profile, other, dbRowLocks, ws, payment, txlog, otp>>

NextRace ==
    \/ \E p \in Slots, u \in {"a"}, amount \in GateAmounts : PlaceBidRead(p, u, amount)
    \/ \E p \in Slots : PlaceBidGate(p)
    \/ \E p \in Slots : PlaceBidDelete(p)
    \/ \E p \in Slots : PlaceBidHighest(p)
    \/ \E p \in Slots : PlaceBidCommit(p)
    \/ \E p \in Slots, u \in {"a"} : VerifyCaptchaWrong(p, u)
    \/ \E p \in Slots, u \in {"a"} : VerifyCaptcha(p, u)
    \/ \E p \in Slots : VerifyCaptchaHighest(p)
    \/ \E p \in Slots : VerifyCaptchaCommit(p)
    \/ Tick

\* the histories of the gate in which a is an established account with at most
\* MaxRaceHistory bids on the item
InitRace ==
    /\ InitGate
    /\ profile["a"] = Regular
    /\ Cardinality(bids) <= MaxRaceHistory

SpecRace == InitRace /\ [][NextRace]_vars

----------------------------------------------------------------------------
(* The rapid-bidding gate on a user who holds cooldowns of both scopes *)

\* cooldown types check_rapid_bidding creates
CreatedTypes == {"soft_challenge", "hard_cooldown"}

\* when a row of the table was created
ItemRowTime == 0 - 100
GlobalRowTime == 0 - 50

\* a row as _create_soft_challenge and _create_hard_cooldown write it
CreatedRow(id, scope, type, t) ==
    NewCooldown(id, "a", scope, type,
                t + (IF type = "soft_challenge" THEN SOFT_CHALLENGE_MINUTES * 60
                     ELSE IF scope = "item" THEN RAPID_BID_COOLDOWN_DURATION
                     ELSE RAPID_BID_COOLDOWN_DURATION * 2),
                t, type = "soft_challenge")

\* The BidCooldown rows of bidder a at time 0: none, one of the item, a global
\* one, or both.  Both: a was cooled down on this item 100 seconds ago, then
\* bid on another auction, where get_active_cooldown(user, that item) does not
\* see the row of this item, and the global velocity check created the global
\* row 50 seconds ago.
InitTable ==
    /\ \E itemRows \in {{}} \cup {{CreatedRow(1, "item", ty, ItemRowTime)} : ty \in CreatedTypes},
          globalRows \in {{}} \cup {{CreatedRow(2, "global", ty, GlobalRowTime)} : ty \in CreatedTypes} :
          /\ cooldowns = itemRows \cup globalRows
          /\ other = [u \in Users |-> IF u = "a" /\ globalRows # {}
                                      THEN [BusyHistory EXCEPT !.time = GlobalRowTime]
                                      ELSE NoHistory]
          /\ session = [u \in Users |->
                           IF u = "a" /\ \E c \in cooldowns : c.cooldown_type = "soft_challenge"
                           THEN [present |-> TRUE, amount |-> MinBid(InitialItem),
                                 timestamp |-> GlobalRowTime, show_captcha |-> TRUE]
                           ELSE NoStash]
    /\ nextCd = 3
    /\ item = InitialItem
    /\ bids = {}
    /\ nextBid = 2
    /\ commits = 0
    /\ profile = [u \in Users |-> IF u = "b" THEN Trusted ELSE Regular]
    /\ dbRowLocks = FALSE
    /\ ws = InitialWs
    /\ payment = InitialPayment
    /\ txlog = InitialTxlog
    /\ otp = InitialOtp
    /\ alerts = {}
    /\ ussd = NoUssd
    /\ wallet = InitialWallet
    /\ procs = [p \in Slots |-> Idle]
    /\ now = 0
    /\ requests = 0

SpecTable == InitTable /\ [][NextChallenge]_vars

----------------------------------------------------------------------------
(* Bidders with fraud bypass whose bidding history is that of a shill *)

\* bypass_fraud_detection alone, and bypass_all_restrictions
BypassedShill == [Regular EXCEPT !.shill = TRUE, !.bypass_fraud_detection = TRUE]
TrustedShill == [Trusted EXCEPT !.shill = TRUE]

InitBypass ==
    /\ item = InitialItem
    /\ bids = {}
    /\ nextBid = 1
    /\ \E h \in {NoHistory, BusyHistory} :
          other = [u \in Users |-> IF u = "a" THEN h ELSE NoHistory]
    /\ cooldowns = {}
    /\ profile = [u \in Users |-> IF u = "a" THEN BypassedShill
                                  ELSE IF u = "b" THEN TrustedShill ELSE Regular]
    /\ dbRowLocks = FALSE
    /\ ws = InitialWs
    /\ payment = InitialPayment
    /\ txlog = InitialTxlog
    /\ otp = InitialOtp
    /\ nextCd = 1
    /\ alerts = {}
    /\ session = [u \in Users |-> NoStash]
    /\ ussd = NoUssd
    /\ wallet = InitialWallet
    /\ procs = [p \in Slots |-> Idle]
    /\ now = 0
    /\ requests = 0
    /\ commits = 0

SpecBypass == InitBypass /\ [][NextBid]_vars

----------------------------------------------------------------------------
(* AuctionConsumer.receive and check_websocket_rate_limit
   (auctions/consumers.py) *)

\* what the shared cache does during one check: it works, cache.get raises,
\* or cache.get works and cache.set raises
CacheStates == {"ok", "get_fails", "set_fails"}

\* message types receive dispatches
MessageTypes == {"place_bid", "request_update"}

\* the senders of messages: the authenticated bidder a, and an anonymous
\* connection
WsSenders == {"a", NoUser}

\* cache.get(cache_key, {'count': 0, 'reset_time': time.time() + window})
CacheGet(entry, t) ==
    IF entry.present /\ t < entry.expires
    THEN [count |-> entry.count, reset_time |-> entry.reset_time]
    ELSE [count |-> 0, reset_time |-> t + WS_WINDOW]

\* cache.set(cache_key, data, window)
CacheSet(data, t) ==
    [present |-> TRUE, count |-> data.count, reset_time |-> data.reset_time,
     expires |-> t + WS_WINDOW]

\* check_websocket_rate_limit answering "rate limit exceeded" when the cache
\* raises
CheckWebsocketRateLimitClosed(entry, u, t, cacheState) ==
    LET data == CacheGet(entry, t)
        fresh == [count |-> 1, reset_time |-> t + WS_WINDOW]
        counted == [data EXCEPT !.count = @ + 1]
    IN  IF u = NoUser THEN [allowed |-> TRUE, cache |-> entry]
        ELSE IF cacheState # "ok" THEN [allowed |-> FALSE, cache |-> entry]
        ELSE IF t >= data.reset_time THEN [allowed |-> TRUE, cache |-> CacheSet(fresh, t)]
        ELSE [allowed |-> counted.count <= WS_MAX_MESSAGES, cache |-> CacheSet(counted, t)]

\* check_websocket_rate_limit: [allowed, cache].  An anonymous connection is
\* allowed without a look at the cache; an exception of cache.get or cache.set
\* is caught and the message allowed, the entry left as it was.
CheckWebsocketRateLimit(entry, u, t, cacheState) ==
    LET data == CacheGet(entry, t)
        fresh == [count |-> 1, reset_time |-> t + WS_WINDOW]
        counted == [data EXCEPT !.count = @ + 1]
    IN  IF u = NoUser THEN [allowed |-> TRUE, cache |-> entry]
        ELSE IF cacheState # "ok" THEN [allowed |-> TRUE, cache |-> entry]
        ELSE IF t >= data.reset_time THEN [allowed |-> TRUE, cache |-> CacheSet(fresh, t)]
        ELSE [allowed |-> counted.count <= WS_MAX_MESSAGES, cache |-> CacheSet(counted, t)]

\* receive: the rate limit, then the error message or the dispatch on the
\* message type.  The bid of a place_bid message is create_bid's (CreateBid).
Receive(u, type, cacheState) ==
    LET r == CheckWebsocketRateLimit(ws.cache, u, now, cacheState)
    IN  /\ ws.burst < WsMaxBurst
        /\ ws' = [cache |-> r.cache,
                  last |-> [user |-> u, type |-> type,
                            cache |-> IF u = NoUser THEN "ok" ELSE cacheState,
                            allowed |-> r.allowed,
                            dispatch |-> IF r.allowed THEN type ELSE "error"],
                  burst |-> ws.burst + 1,
                  failed |-> ws.failed \/ (u # NoUser /\ cacheState # "ok"),
                  accepted |-> IF ws.failed \/ (u # NoUser /\ cacheState # "ok")
                               THEN [t \in WsTimes |-> 0]
                               ELSE IF u # NoUser /\ r.allowed
                               THEN [ws.accepted EXCEPT ![now] = @ + 1]
                               ELSE ws.accepted]
        /\ UNCHANGED <<item, bids, nextBid, cooldowns, nextCd, alerts, session, ussd, wallet,
                       procs, now, requests, commits, profile, other, dbRowLocks, payment, txlog, otp>>

\* time.time() advances
WsTick ==
    /\ \E d \in WsTickSteps : now + d <= WsMaxNow /\ now' = now + d
    /\ ws' = [ws EXCEPT !.burst = 0]
    /\ UNCHANGED <<item, bids, nextBid, cooldowns, nextCd, alerts, session, ussd, wallet,
                   procs, requests, commits, profile, other, dbRowLocks, payment, txlog, otp>>

InitWs ==
    /\ item = InitialItem
    /\ bids = {}
    /\ nextBid = 1
    /\ other = [u \in Users |-> NoHistory]
    /\ cooldowns = {}
    /\ profile = [u \in Users |-> Regular]
    /\ dbRowLocks = FALSE
    /\ ws = InitialWs
    /\ payment = InitialPayment
    /\ txlog = InitialTxlog
    /\ otp = InitialOtp
    /\ nextCd = 1
    /\ alerts = {}
    /\ session = [u \in Users |-> NoStash]
    /\ ussd = NoUssd
    /\ wallet = InitialWallet
    /\ procs = [p \in Slots |-> Idle]
    /\ now = 0
    /\ requests = 0
    /\ commits = 0

NextWs ==
    \/ \E u \in WsSenders, type \in MessageTypes, cacheState \in CacheStates :
          Receive(u, type, cacheState)
    \/ WsTick

SpecWs == InitWs /\ [][NextWs]_vars

----------------------------------------------------------------------------
(* payments/webhooks.py: the webhook views, their handlers, and the         *)
(* reconciliation job of payments/cron.py, on one Payment.                  *)

PaymentStatuses == {"pending", "processing", "completed", "failed", "cancelled"}

\* the event types each view dispatches on, and one it ignores
EventTypes(provider) ==
    CASE provider = "flutterwave" -> {"charge.completed", "other"}
      [] provider = "stripe" -> {"payment_intent.succeeded", "payment_intent.payment_failed",
                                 "other"}

AllEventTypes == UNION { EventTypes(provider) : provider \in WebhookProviders }

\* a posted event: successful is data.status = 'successful' of a Flutterwave
\* charge, known is whether its payment reference is the Payment's payment_id
Deliveries ==
    { d \in [provider : WebhookProviders, id : EventIds, type : AllEventTypes,
             successful : BOOLEAN, known : BOOLEAN] :
        /\ d.type \in EventTypes(d.provider)
        /\ d.type # "charge.completed" => d.successful
        /\ d.type = "other" => d.known }

Key(d) == <<d.provider, d.id>>

\* cache.get(cache_key): the entry, unless it has timed out
SeenEvent(cache, k, t) == t < cache[k]

\* TransactionLog.objects.create as the handlers and the reconciliation job
\* call it: without amount, a NOT NULL column that has no default, so the
\* INSERT raises IntegrityError.
WebhookLogCreateRaises == TRUE

Handled(status, logged, response) ==
    [status |-> status, logged |-> logged, response |-> response]

\* handle_flutterwave_charge_completed and handle_stripe_payment_succeeded,
\* in transaction.atomic on the locked row:
\* the exception of the log's INSERT rolls the status back and the view
\* answers 500.
HandleCompleted(pay, d, newStatus) ==
    IF ~d.known THEN Handled(pay.status, pay.logged, "404")
    ELSE IF pay.status = "completed" THEN Handled(pay.status, pay.logged, "already_processed")
    ELSE IF WebhookLogCreateRaises THEN Handled(pay.status, pay.logged, "500")
    ELSE Handled(newStatus, pay.logged + 1, "success")

AlreadyFinalLoose(status) == status = "failed"

\* if payment.status in ['completed', 'failed']
AlreadyFinal(status) == status \in {"completed", "failed"}

\* handle_stripe_payment_failed
HandleFailed(pay, d) ==
    IF ~d.known THEN Handled(pay.status, pay.logged, "404")
    ELSE IF AlreadyFinal(pay.status) THEN Handled(pay.status, pay.logged, "already_processed")
    ELSE Handled("failed", pay.logged, "success")

\* the dispatch of the views on the event type
Dispatch(pay, d) ==
    CASE d.type = "charge.completed" ->
            HandleCompleted(pay, d, IF d.successful THEN "completed" ELSE "failed")
      [] d.type = "payment_intent.succeeded" -> HandleCompleted(pay, d, "completed")
      [] d.type = "payment_intent.payment_failed" -> HandleFailed(pay, d)
      [] OTHER -> Handled(pay.status, pay.logged, "ignored")

HookIdle(p) == payment.hooks[p].pc \in {"idle", "done"}

HookUnchanged ==
    UNCHANGED <<item, bids, nextBid, cooldowns, nextCd, alerts, session, ussd, wallet,
                procs, commits, profile, other, dbRowLocks, ws, txlog, otp>>

\* the view up to the signature: 401 on a bad one
WebhookReceive(p, d, signed) ==
    /\ HookIdle(p)
    /\ p = "p1" \/ payment.hooks["p1"].pc # "idle"
    /\ requests < MaxRequests
    /\ requests' = requests + 1
    /\ payment' = [payment EXCEPT !.hooks[p] =
                      IF signed THEN [pc |-> "check", delivery |-> d, response |-> "none"]
                      ELSE [pc |-> "done", delivery |-> NoDelivery, response |-> "401"]]
    /\ UNCHANGED now
    /\ HookUnchanged

\* check_replay_protection: if cache.get(cache_key): raise ReplayAttackError
WebhookCheck(p) ==
    LET h == payment.hooks[p]
    IN  /\ h.pc = "check"
        /\ payment' = [payment EXCEPT !.hooks[p] =
                          IF SeenEvent(payment.cache, Key(h.delivery), now)
                          THEN [h EXCEPT !.pc = "done", !.response = "409"]
                          ELSE [h EXCEPT !.pc = "mark"]]
        /\ UNCHANGED <<now, requests>>
        /\ HookUnchanged

\* check_replay_protection: cache.set(cache_key, True, window_seconds)
WebhookMark(p) ==
    LET h == payment.hooks[p]
        k == Key(h.delivery)
        was == payment.passed[k]
    IN  /\ h.pc = "mark"
        /\ payment' = [payment EXCEPT
                          !.hooks[p].pc = "handle",
                          !.cache[k] = now + REPLAY_WINDOW,
                          !.passed[k] =
                              [last |-> now,
                               n |-> IF was.n > 0 /\ now < was.last + REPLAY_WINDOW
                                     THEN was.n + 1 ELSE 1]]
        /\ UNCHANGED <<now, requests>>
        /\ HookUnchanged

\* the handler of the event and the view's response
WebhookHandle(p) ==
    LET h == payment.hooks[p]
        r == Dispatch(payment, h.delivery)
    IN  /\ h.pc = "handle"
        /\ payment' = [payment EXCEPT
                          !.hooks[p] = [h EXCEPT !.pc = "done", !.response = r.response],
                          !.status = r.status,
                          !.logged = r.logged]
        /\ UNCHANGED <<now, requests>>
        /\ HookUnchanged

\* ReconcilePaymentsCronJob.do on the Payment: the filter on
\* stale pending payments, then _reconcile_payment in transaction.atomic;
\* building the log's data reads payment.method, which Payment does not have,
\* so the AttributeError rolls the status back and do() records the error.
ReconcilePayment ==
    /\ payment' = [payment EXCEPT !.job =
                      IF payment.status = "pending" /\ now - payment.created_at > RECONCILE_AGE
                      THEN "rolled_back" ELSE "not_selected"]
    /\ UNCHANGED <<now, requests>>
    /\ HookUnchanged

HookTickSteps == {REPLAY_WINDOW}

\* Payment.created_at: the Payment is an hour old at the start
CreatedAt == 0 - RECONCILE_AGE

\* the statuses the Payment starts in (processing and cancelled are pending
\* to every handler)
InitialStatuses == {"pending", "completed", "failed"}

\* timezone.now() and the cache's clock advance
HookTick ==
    /\ \E d \in HookTickSteps : now + d <= HookMaxNow /\ now' = now + d
    /\ UNCHANGED <<requests, payment>>
    /\ HookUnchanged

InitWebhook ==
    /\ item = InitialItem
    /\ bids = {}
    /\ nextBid = 1
    /\ other = [u \in Users |-> NoHistory]
    /\ cooldowns = {}
    /\ profile = [u \in Users |-> Regular]
    /\ dbRowLocks = FALSE
    /\ ws = InitialWs
    /\ \E st \in InitialStatuses :
          payment = [InitialPayment EXCEPT !.status = st, !.created_at = CreatedAt]
    /\ txlog = InitialTxlog
    /\ otp = InitialOtp
    /\ nextCd = 1
    /\ alerts = {}
    /\ session = [u \in Users |-> NoStash]
    /\ ussd = NoUssd
    /\ wallet = InitialWallet
    /\ procs = [p \in Slots |-> Idle]
    /\ now = 0
    /\ requests = 0
    /\ commits = 0

NextWebhook ==
    \/ \E p \in Slots, d \in Deliveries, signed \in BOOLEAN : WebhookReceive(p, d, signed)
    \/ \E p \in Slots : WebhookCheck(p)
    \/ \E p \in Slots : WebhookMark(p)
    \/ \E p \in Slots : WebhookHandle(p)
    \/ ReconcilePayment
    \/ HookTick

SpecWebhook == InitWebhook /\ [][NextWebhook]_vars

----------------------------------------------------------------------------

(* users/models.py: EmailOTP.verify_code on the EmailOTP of bidder a        *)

OtpUnchanged ==
    UNCHANGED <<item, bids, nextBid, cooldowns, nextCd, alerts, session, ussd, wallet,
                procs, commits, profile, other, dbRowLocks, ws, payment, txlog>>

\* cls.objects.get(user=user, code=code, purpose=purpose, used=False)
OtpMatches(row, u, code, purpose) ==
    row.user = u /\ row.code = code /\ row.purpose = purpose /\ ~row.used

\* is_valid: not self.used and timezone.now() < self.expires_at, on the
\* instance the call fetched
IsValid(fetchedUsed, row, t) == ~fetchedUsed /\ t < row.expires_at

\* verify_code up to the query: DoesNotExist answers "Invalid code"
VerifyCodeGet(p, u, code, purpose) ==
    /\ otp.calls[p].pc \in {"idle", "done"}
    /\ p = "p1" \/ otp.calls["p1"].pc # "idle"
    /\ requests < MaxRequests
    /\ requests' = requests + 1
    /\ otp' = [otp EXCEPT !.calls[p] =
                  IF OtpMatches(otp.row, u, code, purpose)
                  THEN [pc |-> "fetched", user |-> u, code |-> code, purpose |-> purpose,
                        result |-> "none"]
                  ELSE [pc |-> "done", user |-> u, code |-> code, purpose |-> purpose,
                        result |-> "Invalid code"]]
    /\ UNCHANGED now
    /\ OtpUnchanged

\* verify_code after the query: is_valid, then mark_as_used and success, or
\* "Code has expired".  The fetched instance was unused when it was read.
VerifyCodeMark(p) ==
    LET c == otp.calls[p]
        ok == IsValid(FALSE, otp.row, now)
    IN  /\ c.pc = "fetched"
        /\ otp' = [otp EXCEPT
                      !.calls[p] = [c EXCEPT !.pc = "done",
                                             !.result = IF ok THEN "Code verified successfully"
                                                        ELSE "Code has expired"],
                      !.row.used = IF ok THEN TRUE ELSE @,
                      !.successes = IF ok THEN @ + 1 ELSE @]
        /\ UNCHANGED <<now, requests>>
        /\ OtpUnchanged

OtpTickSteps == {100}

\* timezone.now() advances
OtpTick ==
    /\ \E d \in OtpTickSteps : now + d <= OtpMaxNow /\ now' = now + d
    /\ UNCHANGED <<requests, otp>>
    /\ OtpUnchanged

NextOtp ==
    \/ \E p \in Slots, u \in Bidders, code \in OtpCodes, purpose \in OtpPurposes :
          VerifyCodeGet(p, u, code, purpose)
    \/ \E p \in Slots : VerifyCodeMark(p)
    \/ OtpTick

SpecOtp == InitWs /\ [][NextOtp]_vars

----------------------------------------------------------------------------

(* auctions/models.py: TransactionLog.objects.create and its post_save      *)
(* receiver set_transaction_hash                                            *)

TxUnchanged ==
    UNCHANGED <<item, bids, nextBid, cooldowns, nextCd, alerts, session, ussd, wallet,
                procs, now, requests, commits, profile, other, dbRowLocks, ws, payment, otp>>

\* calculate_hash: the SHA-256 of a string that holds the pk and the previous
\* hash, kept as the pair of what it digests (the other fields are the
\* row's own and do not tell two rows apart further than the pk does)
CalculateHash(pk, previous_hash) == <<pk>> \o previous_hash

\* TransactionLog.objects.exclude(pk=instance.pk).order_by('-id').first()
LastTransaction(rows, pk) ==
    LET others == { i \in 1..Len(rows) : i # pk }
    IN  IF others = {} THEN 0 ELSE CHOOSE i \in others : \A j \in others : j <= i

\* the hashes set_transaction_hash gives the row pk: the previous hash is
\* copied from the last other row only if there is one
ChainedHashes(rows, pk) ==
    LET last == LastTransaction(rows, pk)
        previous == IF last # 0 THEN rows[last].current_hash ELSE NoHash
    IN  [previous_hash |-> previous, current_hash |-> CalculateHash(pk, previous)]

\* Model.save: the INSERT of the row, hashes still empty
TransactionLogInsert(p) ==
    /\ txlog.creates[p].pc \in {"idle", "done"}
    /\ p = "p1" \/ txlog.creates["p1"].pc # "idle"
    /\ Len(txlog.rows) < MaxLogs
    /\ txlog' = [rows |-> Append(txlog.rows, [previous_hash |-> NoHash, current_hash |-> NoHash]),
                 creates |-> [txlog.creates EXCEPT ![p] = [pc |-> "saved",
                                                         pk |-> Len(txlog.rows) + 1]]]
    /\ TxUnchanged

\* set_transaction_hash on post_save: created and not instance.current_hash
SetTransactionHash(p) ==
    LET c == txlog.creates[p]
    IN  /\ c.pc = "saved"
        /\ txlog' = [rows |-> [txlog.rows EXCEPT ![c.pk] = ChainedHashes(txlog.rows, c.pk)],
                     creates |-> [txlog.creates EXCEPT ![p].pc = "done"]]
        /\ TxUnchanged

NextTxlog ==
    \/ \E p \in Slots : TransactionLogInsert(p)
    \/ \E p \in Slots : SetTransactionHash(p)

SpecTxlog == InitWs /\ [][NextTxlog]_vars

----------------------------------------------------------------------------

(* check_rapid_bidding on a bidder with bids on this and on other auctions  *)
(* and with earlier soft challenges of both scopes                          *)

\* the bids of bidder a on other auctions: at and just under the global soft
\* thresholds (within the soft window), at and just under the global hard
\* thresholds (outside the soft window, within the hard one), and over both
OtherHistories ==
    { NoHistory, BusyHistory,
      [bids |-> GLOBAL_VELOCITY_SOFT_THRESHOLD_BIDS - 2,
       auctions |-> GLOBAL_VELOCITY_SOFT_THRESHOLD_AUCTIONS, time |-> 0],
      [bids |-> GLOBAL_VELOCITY_SOFT_THRESHOLD_BIDS - 1,
       auctions |-> GLOBAL_VELOCITY_SOFT_THRESHOLD_AUCTIONS - 1, time |-> 0],
      [bids |-> GLOBAL_VELOCITY_HARD_THRESHOLD_BIDS - 1,
       auctions |-> GLOBAL_VELOCITY_HARD_THRESHOLD_AUCTIONS, time |-> 0 - 400],
      [bids |-> GLOBAL_VELOCITY_HARD_THRESHOLD_BIDS - 1,
       auctions |-> GLOBAL_VELOCITY_HARD_THRESHOLD_AUCTIONS - 1, time |-> 0 - 400],
      [bids |-> GLOBAL_VELOCITY_HARD_THRESHOLD_BIDS - 1,
       auctions |-> GLOBAL_VELOCITY_HARD_THRESHOLD_AUCTIONS, time |-> 0] }

\* when a soft challenge that ran out `age` seconds before 0 was created: a
\* global one is never passed (pass_captcha_challenge matches rows of an item
\* only), it ends by running out
ExpiredAt(age) == 0 - age - SOFT_CHALLENGE_MINUTES * 60

\* ji item-scoped soft challenges of bidder a, passed, the latest created
\* `age` seconds before 0, and jg global ones, the latest run out `age`
\* seconds before 0 and deactivated by cleanup_expired
MixedSoftHistory(ji, jg, age) ==
    SoftHistory(ji, age)
        \cup { [NewCooldown(ji + i, "a", "global", "soft_challenge",
                            ExpiredAt(age) - (jg - i) + SOFT_CHALLENGE_MINUTES * 60,
                            ExpiredAt(age) - (jg - i), TRUE)
                   EXCEPT !.is_active = FALSE] : i \in 1..jg }

InitVelocity ==
    /\ \E k \in 0..MaxHistory, inc \in Increments, spacing \in Spacings, e \in EndTimes :
          /\ bids = BidHistory(k, inc, spacing)
          /\ nextBid = k + 1
          /\ commits = k
          /\ item = [InitialItem EXCEPT !.current_price = @ + inc * k, !.bid_count = k,
                                        !.end_time = e]
    /\ \E ji \in 0..ESCALATION_COUNT, jg \in 0..ESCALATION_COUNT, age \in SoftAges :
          /\ ji + jg = 0 => age = 300
          /\ cooldowns = MixedSoftHistory(ji, jg, age)
          /\ nextCd = ji + jg + 1
    /\ \E h \in OtherHistories : other = [u \in Users |-> IF u = "a" THEN h ELSE NoHistory]
    /\ profile = [u \in Users |-> IF u = "b" THEN Trusted ELSE Regular]
    /\ dbRowLocks = FALSE
    /\ ws = InitialWs
    /\ payment = InitialPayment
    /\ txlog = InitialTxlog
    /\ otp = InitialOtp
    /\ alerts = {}
    /\ session = [u \in Users |-> NoStash]
    /\ ussd = NoUssd
    /\ wallet = InitialWallet
    /\ procs = [p \in Slots |-> Idle]
    /\ now = 0
    /\ requests = 0

\* place_bid requests of bidder a, one at a time
NextVelocity ==
    \/ \E amount \in GateAmounts : PlaceBid("p1", "a", amount)
    \/ PlaceBidDelete("p1")
    \/ PlaceBidHighest("p1")
    \/ PlaceBidCommit("p1")
    \/ Tick

SpecVelocity == InitVelocity /\ [][NextVelocity]_vars

----------------------------------------------------------------------------

(* _create_soft_challenge on a bidder with earlier soft challenges on this  *)
(* item, on another item and without item                                   *)

\* the item of a BidCooldown row: this item, another item, none (global)
RowScopes == {"item", "other_item", "global"}

\* n[s] soft challenges of bidder a for each scope s: those of an item
\* passed, the latest created `age` seconds before 0, the global ones run out,
\* the latest `age` seconds before 0
ScopedSoftHistory(n, age) ==
    LET base(s) == IF s = "item" THEN 0
                   ELSE IF s = "other_item" THEN n["item"]
                   ELSE n["item"] + n["other_item"]
        created(s, i) == (IF s = "global" THEN ExpiredAt(age) ELSE 0 - age) - (n[s] - i)
    IN  { [NewCooldown(base(x[1]) + x[2], "a", x[1], "soft_challenge",
                       created(x[1], x[2]) + SOFT_CHALLENGE_MINUTES * 60,
                       created(x[1], x[2]), TRUE)
              EXCEPT !.is_active = FALSE, !.captcha_passed = (x[1] # "global")] :
          x \in { y \in RowScopes \X (1..ESCALATION_COUNT) : y[2] <= n[y[1]] } }

InitEscalation ==
    /\ \E k \in {0, RAPID_BID_SOFT_THRESHOLD_2MIN - 1}, inc \in Increments, e \in EndTimes :
          /\ bids = BidHistory(k, inc, 10)
          /\ nextBid = k + 1
          /\ commits = k
          /\ item = [InitialItem EXCEPT !.current_price = @ + inc * k, !.bid_count = k,
                                        !.end_time = e]
    /\ \E n \in [RowScopes -> 0..ESCALATION_COUNT], age \in SoftAges :
          /\ cooldowns = ScopedSoftHistory(n, age)
          /\ nextCd = Cardinality(cooldowns) + 1
    /\ \E h \in {NoHistory, BusyHistory} :
          other = [u \in Users |-> IF u = "a" THEN h ELSE NoHistory]
    /\ profile = [u \in Users |-> IF u = "b" THEN Trusted ELSE Regular]
    /\ dbRowLocks = FALSE
    /\ ws = InitialWs
    /\ payment = InitialPayment
    /\ txlog = InitialTxlog
    /\ otp = InitialOtp
    /\ alerts = {}
    /\ session = [u \in Users |-> NoStash]
    /\ ussd = NoUssd
    /\ wallet = InitialWallet
    /\ procs = [p \in Slots |-> Idle]
    /\ now = 0
    /\ requests = 0

SpecEscalation == InitEscalation /\ [][NextVelocity]_vars

----------------------------------------------------------------------------

(* Properties *)

\* the entry points of the web application that admit bids
WebPaths == {"place_bid", "verify_captcha", "create_bid"}

BuyNowPaths == {"buy_now", "ussd_buy_now"}

\* no request is in progress
Quiescent == \A p \in Slots : ~Running(p)

\* every bid of the item was written by the web entry points
OnlyWebBids == \A b \in bids : b.via \in WebPaths

WinningBids == { b \in bids : b.is_winning }

Finished(p, kinds, outcome) ==
    /\ procs[p].pc = "done"
    /\ procs[p].kind \in kinds
    /\ procs[p].outcome = outcome

\* C1: once every admission attempt through place_bid, verify_captcha and
\* create_bid has finished and at least one bid was admitted, exactly one bid
\* of the item is winning and current_price is that bid's amount.
C1_OneWinnerAtItsPrice ==
    (Quiescent /\ OnlyWebBids /\ commits >= 1)
        => /\ Cardinality(WinningBids) = 1
           /\ \A b \in WinningBids : item.current_price = b.amount

C3_NoCommitUnderHardCooldown ==
    \A p \in Slots : Finished(p, WebPaths, "committed") => ~procs[p].cooled

\* the fraud analysis of a bid of user u finds a critical pattern
CriticalDetected(u) ==
    \E al \in DetectSelfBidding(u) \cup DetectShillBiddingPatterns(u) : al.severity = "critical"

\* C4: a bid written by place_bid or verify_captcha whose bidder has no fraud
\* bypass and whose analysis finds a critical pattern is never winning and
\* never determines current_price.
C4_CriticalBidNeverWinning ==
    \A b \in bids :
        (b.via \in {"place_bid", "verify_captcha"} /\ ~BypassFraud(b.bidder)
         /\ CriticalDetected(b.bidder))
            => ~b.is_winning

\* C5: whenever an attempt of the seller to bid on the item has finished, no
\* bid of the seller is committed and a critical self_bidding FraudAlert of
\* the seller is recorded.
C5_SelfBidRejectedWithAlert ==
    \A p \in Slots :
        (procs[p].pc = "done" /\ procs[p].kind \in WebPaths /\ procs[p].user = Seller)
            => /\ procs[p].outcome # "committed"
               /\ \E al \in alerts : /\ al.user = Seller
                                     /\ al.alert_type = "self_bidding"
                                     /\ al.severity = "critical"

BuyNowRace(p, q) ==
    /\ p # q
    /\ procs[p].pc = "done" /\ procs[p].kind \in BuyNowPaths
    /\ procs[q].pc = "done" /\ procs[q].kind \in BuyNowPaths
    /\ procs[p].user # procs[q].user
    /\ procs[p].seen = "active" /\ procs[q].seen = "active"
    /\ procs[p].outcome \in {"purchased", "already_purchased"}
    /\ procs[q].outcome \in {"purchased", "already_purchased"}

C8_PriceNeverDecreases ==
    [][/\ item'.current_price >= item.current_price
       /\ commits' # commits => item'.current_price > item.current_price]_vars

\* C9: whenever no request is in progress, at most one bid of the item is
\* winning, and if the item has bids the winning bid has the highest amount.
C9_WinnerIsHighest ==
    (Quiescent /\ OnlyWebBids)
        => /\ Cardinality(WinningBids) <= 1
           /\ bids # {} => \E w \in WinningBids : \A b \in bids : b.amount <= w.amount

\* C10: bid_count is its initial value plus the number of bids committed.
C10_BidCountCountsCommits ==
    OnlyWebBids => item.bid_count = InitialItem.bid_count + commits

\* the statuses that end the bidding on an item
TerminalStatuses == {"sold", "expired", "cancelled"}

\* C11: no step taken while the item is sold, expired or cancelled writes a
\* bid row of the item or commits a bid on it.
C11_NoBidOnceTerminal ==
    [][item.status \in TerminalStatuses => (commits' = commits /\ nextBid' = nextBid)]_vars

\* a step in which slot p starts a place_bid request that passes the
\* structural checks and asks the gate
GateStep(p) ==
    /\ ~Running(p)
    /\ requests' = requests + 1
    /\ procs'[p].kind = "place_bid"
    /\ procs'[p].pc # "done"
    /\ ~BypassRapidBidding(procs'[p].user)

\* no cooldown of user u governs the item, so the gate looks at the windows
NoGoverningCooldown(u) ==
    LET existing == GetActiveCooldown(cooldowns, u, TRUE, now)
    IN  /\ ~(existing.cooldown_type = "soft_challenge" /\ ~existing.captcha_passed)
        /\ existing.cooldown_type \notin {"hard_cooldown", "suspended"}

\* the pending bid of user u breaches a soft window of the item
SoftBreach(u) ==
    LET endgame == IsAuctionEndgame(item, now)
    IN  \/ WindowCount(bids, u, now, RAPID_BID_SOFT_WINDOW_2MIN * 60) + 1
             >= Threshold(RAPID_BID_SOFT_THRESHOLD_2MIN, endgame)
        \/ WindowCount(bids, u, now, RAPID_BID_SOFT_WINDOW_5MIN * 60) + 1
             >= Threshold(RAPID_BID_SOFT_THRESHOLD_5MIN, endgame)

\* the soft challenges of user u on the item created within the last hour
RecentSoftChallenges(cds, u, t) ==
    { c \in cds : /\ c.user = u
                  /\ c.scope = "item"
                  /\ c.cooldown_type = "soft_challenge"
                  /\ c.created_at >= t - 3600 }

\* C12: when a bid of a user breaches a soft window of the item, the gate
\* creates a hard cooldown, and no soft challenge, if two soft challenges of
\* that user on that item were created within the last hour; with fewer than
\* two the user is soft-challenged, an active soft challenge exists and no hard
\* cooldown is created.
C12_EscalationOnThirdSoftChallenge ==
    [][\A p \in Slots :
          (GateStep(p) /\ NoGoverningCooldown(procs'[p].user) /\ SoftBreach(procs'[p].user))
              => LET u == procs'[p].user
                     created == { c \in cooldowns' : c.id >= nextCd }
                 IN  IF Cardinality(RecentSoftChallenges(cooldowns, u, now)) >= 2
                     THEN /\ procs'[p].reject = "hard_cooldown"
                          /\ Cardinality(created) = 1
                          /\ \A c \in created : /\ c.cooldown_type = "hard_cooldown"
                                                /\ c.user = u
                                                /\ c.scope = "item"
                                                /\ c.is_active
                     ELSE /\ procs'[p].reject = "soft_challenge"
                          /\ \A c \in created : c.cooldown_type = "soft_challenge"
                          /\ \E c \in cooldowns' : /\ c.cooldown_type = "soft_challenge"
                                                   /\ c.user = u
                                                   /\ c.scope = "item"
                                                   /\ c.is_active
                                                   /\ c.captcha_required]_vars

\* C12, its case: a place_bid request was refused with a hard cooldown created
\* at its time, after exactly two soft challenges of the hour before it.
C12_Witness ==
    \E p \in Slots, h \in cooldowns :
        /\ procs[p].kind = "place_bid"
        /\ procs[p].reject = "hard_cooldown"
        /\ h.cooldown_type = "hard_cooldown"
        /\ h.user = procs[p].user
        /\ h.expires_at = h.created_at + RAPID_BID_COOLDOWN_DURATION * 2
        /\ Cardinality(RecentSoftChallenges(cooldowns, h.user, h.created_at)) = 2
        /\ \A c \in cooldowns : c.cooldown_type = "hard_cooldown" => c = h

\* the alerts the detectors of analyze_bid build for a bid of user u
Detected(u, amount) ==
    DetectNewAccountHighValue(u, amount) \cup DetectSelfBidding(u)
        \cup DetectShillBiddingPatterns(u)

\* a finished request of place_bid or verify_captcha that saved its bid and
\* had it analysed
Analysed(p) ==
    /\ procs[p].pc = "done"
    /\ procs[p].kind \in {"place_bid", "verify_captcha"}
    /\ procs[p].bid # 0

\* C13: after an admission attempt that had its bid analysed, committed or
\* rolled back, every alert of the analysis is a stored FraudAlert of that bid.
C13_AlertsPersisted ==
    \A p \in Slots :
        Analysed(p)
            => \A al \in Detected(procs[p].user, procs[p].amount) :
                  \E row \in alerts : /\ row.user = procs[p].user
                                      /\ row.bid = procs[p].bid
                                      /\ row.alert_type = al.alert_type
                                      /\ row.severity = al.severity

\* C14: an analysed bid whose alerts include a critical one, of a bidder without
\* fraud bypass, is not committed; an analysed bid that no check rejects and
\* that has no such alert is committed, its alerts stored unresolved.
C14_FraudBlocksExactlyOnCritical ==
    \A p \in Slots :
        Analysed(p)
            => LET u == procs[p].user
                   critical == \E al \in Detected(u, procs[p].amount) : al.severity = "critical"
               IN  /\ (critical /\ ~BypassFraud(u)) => procs[p].outcome # "committed"
                   /\ (~critical /\ procs[p].outcome = "committed")
                         => \A al \in Detected(u, procs[p].amount) :
                               \E row \in alerts : /\ row.user = u
                                                   /\ row.alert_type = al.alert_type
                                                   /\ ~row.is_resolved

\* C15: no admission attempt commits a bid above HIGH_VALUE_BID_THRESHOLD of a
\* user without account-age bypass whose account is younger than
\* MIN_ACCOUNT_AGE_FOR_HIGH_BIDS.
C15_NoHighBidOfNewAccount ==
    \A p \in Slots :
        Finished(p, WebPaths, "committed")
            => ~(/\ procs[p].amount > HIGH_VALUE_BID_THRESHOLD
                 /\ profile[procs[p].user].account_age_days < MIN_ACCOUNT_AGE_FOR_HIGH_BIDS
                 /\ ~BypassAccountAge(procs[p].user))

\* a step in which a new request takes slot p: the request is counted and the
\* slot, the first that ran nothing, now holds it
Starts(p) ==
    /\ ~Running(p)
    /\ p = "p1" \/ Running("p1")
    /\ requests' = requests + 1
    /\ procs'[p] # procs[p]

\* the outcomes of a failed structural validation
StructuralFailures == {"own_item", "not_active", "ended", "not_higher", "below_minimum"}

\* C16: a step in which a bid attempt fails structural validation leaves the
\* item, its bids, the cooldowns and the fraud alerts unchanged.
C16_RejectionWritesNothing ==
    [][\A p \in Slots :
          (/\ Starts(p)
           /\ procs'[p].pc = "done"
           /\ procs'[p].kind \in WebPaths
           /\ procs'[p].outcome \in StructuralFailures)
              => UNCHANGED <<item, bids, cooldowns, alerts>>]_vars

\* a step in which slot p starts a verify_captcha request with the right answer
ResumeStep(p) ==
    /\ Starts(p)
    /\ procs'[p].kind = "verify_captcha"
    /\ procs'[p].outcome # "captcha_failed"

\* C17: a resume whose stashed amount is below the item's current minimum bid
\* is rejected, creating no bid, discarding the stash and leaving the item
\* unchanged; and a resume commits its bid only if the amount is at least the
\* minimum bid of the item at the time of the commit.
C17_ResumeRevalidatesMinimum ==
    [][\A p \in Slots :
          /\ (/\ ResumeStep(p)
              /\ session[procs'[p].user].present
              /\ now - session[procs'[p].user].timestamp <= PENDING_BID_MAX_AGE
              /\ session[procs'[p].user].amount < MinBid(item))
                 => /\ procs'[p].outcome = "below_minimum"
                    /\ session'[procs'[p].user] = NoStash
                    /\ UNCHANGED <<item, bids, nextBid>>
          /\ (/\ procs[p].kind = "verify_captcha"
              /\ Running(p)
              /\ procs'[p].pc = "done"
              /\ procs'[p].outcome = "committed")
                 => procs[p].amount >= MinBid(item)]_vars

\* C18: a resume whose stash is more than five minutes old discards the stash,
\* creates no bid and leaves the item unchanged.
C18_ExpiredStashDiscarded ==
    [][\A p \in Slots :
          (/\ ResumeStep(p)
           /\ session[procs'[p].user].present
           /\ now - session[procs'[p].user].timestamp > 300)
              => /\ procs'[p].pc = "done"
                 /\ procs'[p].outcome = "expired"
                 /\ session'[procs'[p].user] = NoStash
                 /\ UNCHANGED <<item, bids, nextBid, commits>>]_vars

\* C18, its case: a resume was refused as expired and the stash is gone, while
\* the bid was never written.
C18_Witness ==
    \E p \in Slots :
        /\ Finished(p, {"verify_captcha"}, "expired")
        /\ procs[p].amount \in StashAmounts
        /\ session[procs[p].user] = NoStash
        /\ \A b \in bids : b.via # "verify_captcha"

\* base threshold times the endgame multiplier 2.0 while the item is active
\* and within its endgame window, the base threshold otherwise
Scaled(base) == IF IsAuctionEndgame(item, now) THEN 2 * base ELSE base

\* the pending bid of user u reaches threshold in the item's window of seconds
Reaches(u, seconds, threshold) == WindowCount(bids, u, now, seconds) + 1 >= threshold

ScaledSoftBreach(u) ==
    \/ Reaches(u, RAPID_BID_SOFT_WINDOW_2MIN * 60, Scaled(RAPID_BID_SOFT_THRESHOLD_2MIN))
    \/ Reaches(u, RAPID_BID_SOFT_WINDOW_5MIN * 60, Scaled(RAPID_BID_SOFT_THRESHOLD_5MIN))

ScaledHardBreach(u) ==
    \/ Reaches(u, RAPID_BID_HARD_WINDOW_5MIN * 60, Scaled(RAPID_BID_HARD_THRESHOLD_5MIN))
    \/ Reaches(u, RAPID_BID_HARD_WINDOW_20SEC, Scaled(RAPID_BID_HARD_THRESHOLD_20SEC))

\* the global velocity checks with their bid thresholds as configured
GlobalBreach(u) ==
    \/ CheckGlobalVelocity(bids, u, now, GLOBAL_VELOCITY_SOFT_WINDOW_MINUTES,
                           GLOBAL_VELOCITY_SOFT_THRESHOLD_BIDS,
                           GLOBAL_VELOCITY_SOFT_THRESHOLD_AUCTIONS)
    \/ CheckGlobalVelocity(bids, u, now, GLOBAL_VELOCITY_HARD_WINDOW_MINUTES,
                           GLOBAL_VELOCITY_HARD_THRESHOLD_BIDS,
                           GLOBAL_VELOCITY_HARD_THRESHOLD_AUCTIONS)

\* the global velocity checks with their bid thresholds scaled like the others
ScaledGlobalBreach(u) ==
    \/ CheckGlobalVelocity(bids, u, now, GLOBAL_VELOCITY_SOFT_WINDOW_MINUTES,
                           Scaled(GLOBAL_VELOCITY_SOFT_THRESHOLD_BIDS),
                           GLOBAL_VELOCITY_SOFT_THRESHOLD_AUCTIONS)
    \/ CheckGlobalVelocity(bids, u, now, GLOBAL_VELOCITY_HARD_WINDOW_MINUTES,
                           Scaled(GLOBAL_VELOCITY_HARD_THRESHOLD_BIDS),
                           GLOBAL_VELOCITY_HARD_THRESHOLD_AUCTIONS)

\* what the gate answers to the bid of slot p when the item's windows decide
\* with scaled thresholds, and whether it lets the bid pass when globalBreach
\* says if the global velocity is breached
GateFollows(p, globalBreach) ==
    LET u == procs'[p].user
        escalate == Cardinality(RecentSoftChallenges(cooldowns, u, now)) >= 2
    IN  /\ ScaledSoftBreach(u)
           => procs'[p].reject = IF escalate THEN "hard_cooldown" ELSE "soft_challenge"
        /\ (~ScaledSoftBreach(u) /\ ScaledHardBreach(u)) => procs'[p].reject = "hard_cooldown"
        /\ (/\ ~ScaledSoftBreach(u)
            /\ ~ScaledHardBreach(u)
            /\ ~globalBreach
            /\ ~CheckMinimumIncrementPattern(bids, u, item, procs'[p].amount, now))
              => procs'[p].reject \notin {"soft_challenge", "hard_cooldown", "suspended"}

\* C19 as stated: every velocity threshold of the gate, the global ones
\* included, is the base threshold times the endgame multiplier in the endgame
\* window and the base threshold outside it.
C19_EveryVelocityThresholdScaled ==
    [][\A p \in Slots :
          (GateStep(p) /\ NoGoverningCooldown(procs'[p].user))
              => GateFollows(p, ScaledGlobalBreach(procs'[p].user))]_vars

\* C19, amended: the thresholds of the item's four windows (soft 2 minutes and
\* 5 minutes, hard 5 minutes and 20 seconds) are the base thresholds times the
\* endgame multiplier in the endgame window and the base thresholds outside it,
\* so that in the endgame the 9th bid in 2 minutes passes the soft windows and
\* the 10th is challenged; the global velocity thresholds are not scaled.
C19_ItemWindowThresholdsScaled ==
    [][\A p \in Slots :
          (GateStep(p) /\ NoGoverningCooldown(procs'[p].user))
              => GateFollows(p, GlobalBreach(procs'[p].user))]_vars

\* the saved bids of the user of slot p in the 2 minutes before now, the bid of
\* the request itself left out
EarlierBids(p) ==
    { b \in bids : /\ b.bidder = procs[p].user
                   /\ b.id # procs[p].bid
                   /\ b.bid_time >= now - 120 }

\* C19, its case: in the endgame window a 10th bid in 2 minutes was
\* soft-challenged, its increment above the minimal one.
C19_Witness ==
    \E p \in Slots :
        /\ procs[p].kind = "place_bid"
        /\ procs[p].pc = "delete"
        /\ procs[p].reject = "soft_challenge"
        /\ IsAuctionEndgame(item, now)
        /\ Cardinality(EarlierBids(p)) = 9
        /\ procs[p].amount > MinBid(item)

\* the saved bids of user u on the item within the minimal-increment window
StreakBids(u) == { b \in bids : b.bidder = u /\ b.bid_time >= now - MIN_INCREMENT_WINDOW_SECONDS }

\* the bid of amount by user u continues a streak: every bid of the item is
\* u's, each bid in the window raised the price by exactly min_increment, and
\* so does this one
MinimalStreak(u, amount) ==
    /\ \A b \in bids : b.bidder = u
    /\ \A b \in StreakBids(u) : b.amount = b.floor
    /\ amount = MinBid(item)

\* C20: when no velocity check is breached, the bid that is the user's 5th
\* consecutive bid in the window, each raising the price by exactly
\* min_increment, is soft-challenged, and the bids before it are allowed.
C20_ChallengeOnFifthMinimalBid ==
    [][\A p \in Slots :
          (/\ GateStep(p)
           /\ NoGoverningCooldown(procs'[p].user)
           /\ ~ScaledSoftBreach(procs'[p].user)
           /\ ~ScaledHardBreach(procs'[p].user)
           /\ ~GlobalBreach(procs'[p].user)
           /\ MinimalStreak(procs'[p].user, procs'[p].amount)
           /\ Cardinality(StreakBids(procs'[p].user)) + 1 <= 5)
              => IF Cardinality(StreakBids(procs'[p].user)) + 1 = 5
                 THEN procs'[p].reject = "soft_challenge"
                 ELSE procs'[p].reject \notin {"soft_challenge", "hard_cooldown", "suspended"}]_vars

\* the cooldown that makes check_rapid_bidding answer soft_challenge to u
BlockingSoftChallenge(cds, u, t) ==
    LET c == GetActiveCooldown(cds, u, TRUE, t)
    IN  IF c.cooldown_type = "soft_challenge" /\ ~c.captcha_passed THEN c ELSE NoCooldown

\* C21: when a resume passes the CAPTCHA (pass_captcha_challenge is called),
\* the soft challenge that blocked the user on the item, item-scoped or global,
\* is afterwards inactive with captcha_passed set, and the gate no longer
\* answers soft_challenge because of it.
C21_PassedChallengeInactive ==
    [][\A p \in Slots :
          (/\ ResumeStep(p)
           /\ procs'[p].pc = "commit"
           /\ BlockingSoftChallenge(cooldowns, procs'[p].user, now) # NoCooldown)
              => LET was == BlockingSoftChallenge(cooldowns, procs'[p].user, now)
                 IN  /\ \A c \in cooldowns' :
                            c.id = was.id => ~c.is_active /\ c.captcha_passed
                     /\ BlockingSoftChallenge(cooldowns', procs'[p].user, now).id # was.id]_vars

\* a step in which slot p answers the CAPTCHA wrongly
FailStep(p) ==
    /\ Starts(p)
    /\ procs'[p].kind = "verify_captcha"
    /\ procs'[p].outcome = "captcha_failed"

\* the active soft challenges of u on the item
ItemSoftChallenges(cds, u) ==
    { c \in cds : /\ c.user = u
                  /\ c.scope = "item"
                  /\ c.cooldown_type = "soft_challenge"
                  /\ c.is_active }

\* the rows of cds whose id is not in ids
RowsBut(cds, ids) == { c \in cds : c.id \notin ids }

GateBlocks == {"soft_challenge", "hard_cooldown", "suspended"}

\* the active rows of u, item-scoped or global, that have not expired at t
Unexpired(cds, u, t) == { c \in cds : c.user = u /\ c.is_active /\ t < c.expires_at }

\* C23: on every call of check_rapid_bidding, (1) no row is afterwards active
\* with expires_at <= now, every row that was active and expired has only its
\* is_active cleared, and every other row is left as it was; (2) when no active
\* row of the user has now < expires_at, the gate blocks only by a breach found
\* in this call, for which it creates a new row, never because of an old row.
C23_CooldownEndsAtExpiry ==
    [][\A p \in Slots :
          GateStep(p)
              => /\ \A c \in cooldowns' : ~(c.is_active /\ c.expires_at <= now)
                 /\ \A c \in cooldowns :
                       IF c.is_active /\ c.expires_at <= now
                       THEN [c EXCEPT !.is_active = FALSE] \in cooldowns'
                       ELSE c \in cooldowns'
                 /\ (/\ Unexpired(cooldowns, procs'[p].user, now) = {}
                     /\ procs'[p].reject \in GateBlocks)
                        => /\ nextCd' = nextCd + 1
                           /\ \E c \in cooldowns' : c.id = nextCd /\ c.created_at = now]_vars

\* C23, its case: a bid of place_bid was committed at or after the expires_at
\* of a cooldown of its bidder that nothing but cleanup_expired deactivated.
C23_Witness ==
    \E p \in Slots, c \in cooldowns :
        /\ Finished(p, {"place_bid"}, "committed")
        /\ ~BypassRapidBidding(procs[p].user)
        /\ c.user = procs[p].user
        /\ c.expires_at <= now
        /\ ~c.is_active
        /\ ~c.captcha_passed
        /\ c.failed_attempts < MAX_FAILED_ATTEMPTS
        /\ \E b \in bids : b.id = procs[p].bid /\ b.bid_time >= c.expires_at

\* C24: for each user and each scope (the item, or global) at most one
\* BidCooldown row has is_active = true.
C24_OneActiveCooldownPerScope ==
    \A c \in cooldowns, d \in cooldowns :
        (c.user = d.user /\ c.scope = d.scope /\ c.is_active /\ d.is_active) => c.id = d.id

\* the item-scoped rows of u that are active and unexpired at t
ItemRows(cds, u, t) == { c \in Unexpired(cds, u, t) : c.scope = "item" }

\* C25: at every call of check_rapid_bidding, get_active_cooldown(user, item)
\* returns an item-scoped row whenever the user has an active unexpired one, a
\* global row only when there is none, and without an item argument a global
\* row or nothing; so the gate answers with the type of an item-scoped row
\* whenever there is one.
C25_ItemScopedCooldownFirst ==
    [][\A p \in Slots :
          GateStep(p)
              => LET u == procs'[p].user
                     rows == ItemRows(cooldowns, u, now)
                 IN  /\ rows # {} => GetActiveCooldown(cooldowns, u, TRUE, now) \in rows
                     /\ GetActiveCooldown(cooldowns, u, TRUE, now).scope = "global"
                           => rows = {}
                     /\ GetActiveCooldown(cooldowns, u, FALSE, now).scope \in {"global", "none"}
                     /\ rows # {} => \E c \in rows : procs'[p].reject = c.cooldown_type]_vars

\* C26: an analysed bid of a bidder with fraud bypass whose alerts include a
\* critical one, and which the gate and the account-age check let through, is
\* committed, and every alert of the analysis is a stored FraudAlert of that
\* bid, as for a bidder without bypass.
C26_BypassedFraudStillRecorded ==
    \A p \in Slots :
        (/\ Analysed(p)
         /\ BypassFraud(procs[p].user)
         /\ \E al \in Detected(procs[p].user, procs[p].amount) : al.severity = "critical"
         /\ procs[p].outcome \in {"committed", "fraud"})
            => /\ procs[p].outcome = "committed"
               /\ \A al \in Detected(procs[p].user, procs[p].amount) :
                     \E row \in alerts : /\ row.user = procs[p].user
                                         /\ row.bid = procs[p].bid
                                         /\ row.alert_type = al.alert_type
                                         /\ row.severity = al.severity

\* What get_ai_fraud_assessment can come to: OpenAI is not configured, the call
\* fails (None is returned), or an alert with the risk level read off the reply.
AiAssessments == {"disabled", "failed", "low", "medium", "high", "critical"}

AiAlerts(ai) ==
    IF ai \in {"disabled", "failed"} THEN {} ELSE {Alert("ai_fraud_assessment", ai)}

\* analyze_bid with its AI step: when the detectors returned alerts and OpenAI
\* is enabled, the assessment is appended to them.
AnalyzeBidWithAi(u, amount, ai) ==
    IF DetectBidPatternAnomalyRaises
    THEN [raised |-> TRUE, alerts |-> {}]
    ELSE [raised |-> FALSE,
          alerts |-> Detected(u, amount)
                     \cup (IF Detected(u, amount) # {} THEN AiAlerts(ai) ELSE {})]

\* whether the analysis with assessment ai makes the request of that kind
\* delete the bid: place_bid reads the bypass flags, verify_captcha does not
FraudBlocksWithAi(kind, u, amount, ai) ==
    /\ ~AnalyzeBidWithAi(u, amount, ai).raised
    /\ kind = "place_bid" => ~BypassFraud(u)
    /\ \E al \in AnalyzeBidWithAi(u, amount, ai).alerts : al.severity = "critical"

\* a step in which slot p starts a request that saves its bid and analyses it
AnalysisStep(p) ==
    /\ Starts(p)
    /\ procs'[p].kind \in {"place_bid", "verify_captcha"}
    /\ nextBid' = nextBid + 1

GateRefuses(u, amount) ==
    /\ ~BypassRapidBidding(u)
    /\ ~CheckRapidBidding(cooldowns, nextCd, bids, u, item, amount, now).allowed

C29_CacheFailureFailsOpen ==
    ws.last.cache # "ok" => ws.last.allowed /\ ws.last.dispatch = ws.last.type

\* C29, its case: the cache raised on the write of a count past the limit,
\* within the window, and the message was processed.
C29_Witness ==
    /\ ws.last.cache = "set_fails"
    /\ ws.last.allowed
    /\ ws.last.dispatch = ws.last.type
    /\ ws.cache.present
    /\ ws.cache.count >= WS_MAX_MESSAGES
    /\ now < ws.cache.reset_time

RECURSIVE AcceptedIn(_)
\* the messages of a accepted at the seconds of S
AcceptedIn(S) ==
    IF S = {} THEN 0
    ELSE LET t == CHOOSE s \in S : TRUE
         IN  ws.accepted[t] + AcceptedIn(S \ {t})

\* C30: while the cache has worked, no period of WS_WINDOW seconds holds more
\* than WS_MAX_MESSAGES accepted messages of the authenticated user, and a
\* message that is not allowed is answered with the error and not dispatched.
C30_TenMessagesInAnyMinute ==
    /\ ~ws.failed
          => \A t \in WsTimes :
                AcceptedIn({ s \in WsTimes : t <= s /\ s < t + WS_WINDOW }) <= WS_MAX_MESSAGES
    /\ ~ws.last.allowed => ws.last.dispatch = "error"

\* C31: a webhook event id of a provider is processed at most once within the
\* replay window: no two deliveries of the same event pass
\* check_replay_protection less than REPLAY_WINDOW seconds apart, one after
\* the other or concurrently; the second is answered 409 and reaches no handler.
C31_EventProcessedOnce ==
    \A k \in WebhookKeys : payment.passed[k].n <= 1

\* C32: once the Payment is completed, no step of a webhook handler or of the
\* reconciliation job changes its status or writes a payment_webhook
\* TransactionLog entry, whatever deliveries arrive and however they interleave.
C32_CompletedIsFinal ==
    [][payment.status = "completed"
          => payment'.status = "completed" /\ payment'.logged = payment.logged]_vars

\* a payment_failed event for the completed Payment was handled and skipped,
\* and the reconciliation job has run
C32_Witness ==
    /\ payment.status = "completed"
    /\ payment.job = "not_selected"
    /\ \E p \in Slots :
          /\ payment.hooks[p].pc = "done"
          /\ payment.hooks[p].delivery.type = "payment_intent.payment_failed"
          /\ payment.hooks[p].delivery.known
          /\ payment.hooks[p].response = "already_processed"

\* C33: an EmailOTP code verifies successfully at most once: after one
\* verify_code call returned success, every later or concurrent call with the
\* same user, purpose and code returns failure.
C33_OtpVerifiesOnce ==
    otp.successes <= 1

\* C34: the transaction log is a hash chain: once every creation has
\* finished, the first entry has an empty previous_hash and every other
\* entry's previous_hash is the current_hash of the entry of the next-lower
\* id, for sequential and for concurrent creations alike.
C34_HashChain ==
    (\A p \in Slots : txlog.creates[p].pc # "saved")
        => \A i \in 1..Len(txlog.rows) :
              txlog.rows[i].previous_hash =
                  IF i = 1 THEN NoHash ELSE txlog.rows[i - 1].current_hash

\* a hard window of the item is reached by the bid u is placing
HardBreach(u) ==
    LET endgame == IsAuctionEndgame(item, now)
    IN  \/ WindowCount(bids, u, now, RAPID_BID_HARD_WINDOW_5MIN * 60) + 1
             >= Threshold(RAPID_BID_HARD_THRESHOLD_5MIN, endgame)
        \/ WindowCount(bids, u, now, RAPID_BID_HARD_WINDOW_20SEC) + 1
             >= Threshold(RAPID_BID_HARD_THRESHOLD_20SEC, endgame)

GlobalSoftBreach(u) ==
    CheckGlobalVelocity(bids, u, now, GLOBAL_VELOCITY_SOFT_WINDOW_MINUTES,
                        GLOBAL_VELOCITY_SOFT_THRESHOLD_BIDS,
                        GLOBAL_VELOCITY_SOFT_THRESHOLD_AUCTIONS)

GlobalHardBreach(u) ==
    CheckGlobalVelocity(bids, u, now, GLOBAL_VELOCITY_HARD_WINDOW_MINUTES,
                        GLOBAL_VELOCITY_HARD_THRESHOLD_BIDS,
                        GLOBAL_VELOCITY_HARD_THRESHOLD_AUCTIONS)

\* the first check, in the documented order, that the bid of amount by u breaches
FirstBreached(u, amount) ==
    IF ~NoGoverningCooldown(u) THEN "existing"
    ELSE IF SoftBreach(u) THEN "item_soft"
    ELSE IF HardBreach(u) THEN "item_hard"
    ELSE IF GlobalSoftBreach(u) THEN "global_soft"
    ELSE IF GlobalHardBreach(u) THEN "global_hard"
    ELSE IF CheckMinimumIncrementPattern(bids, u, item, amount, now) THEN "min_increment"
    ELSE "none"

\* the BidCooldown rows a step creates
CreatedRows == { c \in cooldowns' : \A d \in cooldowns : d.id # c.id }

\* the action and the rows a call may leave when `first` is its first breached check
Answers(p, first) ==
    LET action == procs'[p].reject
        u == procs'[p].user
    IN  CASE first = "existing" ->
                /\ action = GetActiveCooldown(cooldowns, u, TRUE, now).cooldown_type
                /\ CreatedRows = {}
          [] first = "item_soft" ->
                /\ action \in {"soft_challenge", "hard_cooldown"}
                /\ \A c \in CreatedRows : c.scope = "item"
          [] first = "item_hard" ->
                /\ action = "hard_cooldown"
                /\ \E c \in CreatedRows :
                      /\ c.scope = "item"
                      /\ c.cooldown_type = "hard_cooldown"
                      /\ c.expires_at = now + RAPID_BID_COOLDOWN_DURATION
          [] first = "global_soft" ->
                /\ action = "soft_challenge"
                /\ \A c \in CreatedRows : c.scope = "global"
          [] first = "global_hard" ->
                /\ action = "hard_cooldown"
                /\ \E c \in CreatedRows :
                      /\ c.scope = "global"
                      /\ c.cooldown_type = "hard_cooldown"
                      /\ c.expires_at = now + RAPID_BID_COOLDOWN_DURATION * 2
          [] first = "min_increment" ->
                /\ action = "soft_challenge"
                /\ \A c \in CreatedRows : c.scope = "item"
          [] OTHER ->
                /\ action \notin GateBlocks
                /\ CreatedRows = {}

\* C35: check_rapid_bidding answers for the first breached check in the order
\* existing cooldown, item soft windows, item hard windows, global soft
\* velocity, global hard velocity, minimal-increment pattern, whatever later
\* checks are breached too; a call creates at most one cooldown row, of the
\* scope of that check, and allows the bid and creates none when no check is
\* breached.
C35_ChecksInFixedOrder ==
    [][\A p \in Slots :
          GateStep(p)
              => /\ Answers(p, FirstBreached(procs'[p].user, procs'[p].amount))
                 /\ Cardinality(CreatedRows) <= 1]_vars

\* C35, its case: the bid of a bidder over the global soft and the global
\* hard thresholds at once was answered by the soft check, with a global
\* soft challenge created by the call
C35_Witness ==
    /\ procs["p1"].kind = "place_bid"
    /\ procs["p1"].pc = "delete"
    /\ procs["p1"].reject = "soft_challenge"
    /\ other["a"].bids + 1 >= GLOBAL_VELOCITY_HARD_THRESHOLD_BIDS
    /\ other["a"].auctions >= GLOBAL_VELOCITY_HARD_THRESHOLD_AUCTIONS
    /\ other["a"].time >= now - GLOBAL_VELOCITY_SOFT_WINDOW_MINUTES * 60
    /\ \E c \in cooldowns :
          /\ c.scope = "global"
          /\ c.cooldown_type = "soft_challenge"
          /\ c.created_at = now
          /\ c.is_active

\* the bids of u recorded on the item in the last `seconds` seconds
Recorded(u, seconds) == { b \in bids : b.bidder = u /\ now - b.bid_time <= seconds }

\* the four windows of the item: their length in seconds and their effective
\* threshold at this moment
ItemWindows ==
    LET endgame == IsAuctionEndgame(item, now)
    IN  [soft2 |-> [seconds |-> RAPID_BID_SOFT_WINDOW_2MIN * 60,
                    threshold |-> Threshold(RAPID_BID_SOFT_THRESHOLD_2MIN, endgame)],
         soft5 |-> [seconds |-> RAPID_BID_SOFT_WINDOW_5MIN * 60,
                    threshold |-> Threshold(RAPID_BID_SOFT_THRESHOLD_5MIN, endgame)],
         hard5 |-> [seconds |-> RAPID_BID_HARD_WINDOW_5MIN * 60,
                    threshold |-> Threshold(RAPID_BID_HARD_THRESHOLD_5MIN, endgame)],
         hard20 |-> [seconds |-> RAPID_BID_HARD_WINDOW_20SEC,
                     threshold |-> Threshold(RAPID_BID_HARD_THRESHOLD_20SEC, endgame)]]

\* the window w holds at least N - 1 recorded bids of u, N its threshold
OneShort(u, w) == Cardinality(Recorded(u, w.seconds)) >= w.threshold - 1

\* C36: every window check counts the pending bid: at a call of the gate on
\* a user without a governing cooldown, each window check reports the recorded
\* bids in the window plus one and is breached exactly when they number at
\* least N - 1, N the effective threshold; so the bid is refused by the soft
\* windows, else by the hard windows, exactly when one of them holds N - 1
\* recorded bids.
C36_WindowCountsPendingBid ==
    [][\A p \in Slots :
          (GateStep(p) /\ NoGoverningCooldown(procs'[p].user))
              => LET u == procs'[p].user
                     w == ItemWindows
                     soft == OneShort(u, w.soft2) \/ OneShort(u, w.soft5)
                     hard == OneShort(u, w.hard5) \/ OneShort(u, w.hard20)
                 IN  /\ \A n \in DOMAIN w :
                           LET r == CheckWindow(bids, u, now, w[n].seconds, w[n].threshold)
                           IN  /\ r.count = Cardinality(Recorded(u, w[n].seconds)) + 1
                               /\ r.exceeded <=> OneShort(u, w[n])
                     /\ soft => procs'[p].reject \in {"soft_challenge", "hard_cooldown"}
                     /\ (~soft /\ hard) => procs'[p].reject = "hard_cooldown"
                     /\ (/\ ~soft
                         /\ ~hard
                         /\ ~GlobalBreach(u)
                         /\ ~CheckMinimumIncrementPattern(bids, u, item, procs'[p].amount, now))
                           => procs'[p].reject \notin GateBlocks]_vars

\* C36, its case: outside the endgame, with exactly four bids recorded in the
\* last two minutes, the fifth was soft-challenged
C36_Witness ==
    /\ procs["p1"].kind = "place_bid"
    /\ procs["p1"].pc = "delete"
    /\ procs["p1"].reject = "soft_challenge"
    /\ ~IsAuctionEndgame(item, now)
    /\ Cardinality(EarlierBids("p1")) = RAPID_BID_SOFT_THRESHOLD_2MIN - 1
    /\ \A c \in cooldowns : c.created_at = now \/ ~c.is_active

\* the bids of u recorded in the last `minutes` minutes on any auction, the
\* pending bid included
BidCount(u, minutes) ==
    Cardinality(Recorded(u, minutes * 60))
        + (IF now - other[u].time <= minutes * 60 THEN other[u].bids ELSE 0) + 1

\* the distinct auctions of the bids of u recorded in the last `minutes` minutes
AuctionCount(u, minutes) ==
    (IF Recorded(u, minutes * 60) # {} THEN 1 ELSE 0)
        + (IF now - other[u].time <= minutes * 60 THEN other[u].auctions ELSE 0)

BothReached(u, minutes, minBids, minAuctions) ==
    BidCount(u, minutes) >= minBids /\ AuctionCount(u, minutes) >= minAuctions

\* C37: at a call of the gate that reaches the global checks (no governing
\* cooldown, no window of the item breached), the global velocity blocks only
\* when the bid count including the pending bid and the distinct-auction count
\* both reach their thresholds: then the call answers soft_challenge (soft
\* thresholds) or hard_cooldown (hard thresholds) with a global row; when either
\* count is below its threshold for both checks, the call creates no global
\* row and, the increments not being minimal, does not block.
C37_GlobalVelocityNeedsBoth ==
    [][\A p \in Slots :
          (/\ GateStep(p)
           /\ NoGoverningCooldown(procs'[p].user)
           /\ ~SoftBreach(procs'[p].user)
           /\ ~HardBreach(procs'[p].user))
              => LET u == procs'[p].user
                     soft == BothReached(u, GLOBAL_VELOCITY_SOFT_WINDOW_MINUTES,
                                         GLOBAL_VELOCITY_SOFT_THRESHOLD_BIDS,
                                         GLOBAL_VELOCITY_SOFT_THRESHOLD_AUCTIONS)
                     hard == BothReached(u, GLOBAL_VELOCITY_HARD_WINDOW_MINUTES,
                                         GLOBAL_VELOCITY_HARD_THRESHOLD_BIDS,
                                         GLOBAL_VELOCITY_HARD_THRESHOLD_AUCTIONS)
                 IN  /\ soft => procs'[p].reject = "soft_challenge"
                     /\ (~soft /\ hard) => procs'[p].reject = "hard_cooldown"
                     /\ (soft \/ hard) => \A c \in CreatedRows : c.scope = "global"
                     /\ (~soft /\ ~hard)
                           => /\ \A c \in CreatedRows : c.scope # "global"
                              /\ ~CheckMinimumIncrementPattern(bids, u, item,
                                                               procs'[p].amount, now)
                                    => procs'[p].reject \notin GateBlocks]_vars

\* C37, its case: a bid that was the tenth in five minutes, the recorded ones
\* on two auctions only, passed the gate and left no cooldown
C37_Witness ==
    /\ procs["p1"].kind = "place_bid"
    /\ procs["p1"].pc = "commit"
    /\ BidCount("a", GLOBAL_VELOCITY_SOFT_WINDOW_MINUTES) - 1
          >= GLOBAL_VELOCITY_SOFT_THRESHOLD_BIDS
    /\ other["a"].auctions = GLOBAL_VELOCITY_SOFT_THRESHOLD_AUCTIONS - 1
    /\ { b \in bids : b.bidder = "a" /\ b.id # procs["p1"].bid } = {}
    /\ { c \in cooldowns : c.is_active } = {}

\* the soft challenges of u with scope s created in the last hour
CountedChallenges(u, s) ==
    { c \in cooldowns : /\ c.user = u
                        /\ c.scope = s
                        /\ c.cooldown_type = "soft_challenge"
                        /\ now - c.created_at <= ESCALATION_HOURS * 3600 }

\* C38: escalation counts per scope: a call of the gate whose first breached
\* check asks for a soft challenge escalates (creates a hard cooldown) exactly
\* when the user has two soft challenges of the last hour in the scope of that
\* check -- this item for the item's windows and the increment pattern, no
\* item for the global velocity -- however many there are for another item or
\* for the other scope, and every row it creates has the scope of that check.
C38_EscalationPerScope ==
    [][\A p \in Slots :
          (/\ GateStep(p)
           /\ FirstBreached(procs'[p].user, procs'[p].amount)
                 \in {"item_soft", "global_soft", "min_increment"})
              => LET u == procs'[p].user
                     s == IF FirstBreached(u, procs'[p].amount) = "global_soft"
                          THEN "global" ELSE "item"
                 IN  /\ (\E c \in CreatedRows : c.cooldown_type = "hard_cooldown")
                            <=> Cardinality(CountedChallenges(u, s)) >= ESCALATION_COUNT
                     /\ \A c \in CreatedRows : c.scope = s]_vars

\* C38, its case: with two recent soft challenges on another item and two
\* global ones, but one on this item, the item's soft window was answered by
\* a new soft challenge of this item, not by a hard cooldown
C38_Witness ==
    /\ procs["p1"].kind = "place_bid"
    /\ procs["p1"].pc = "delete"
    /\ procs["p1"].reject = "soft_challenge"
    /\ Cardinality(CountedChallenges("a", "other_item")) = ESCALATION_COUNT
    /\ Cardinality(CountedChallenges("a", "global")) = ESCALATION_COUNT
    /\ Cardinality(CountedChallenges("a", "item")) = ESCALATION_COUNT
    /\ \E c \in CountedChallenges("a", "item") : c.created_at = now /\ c.is_active
    /\ \A c \in cooldowns : c.cooldown_type = "soft_challenge"

\* C39: the action check_rapid_bidding returns matches the cooldown state it
\* leaves: a call that created a hard_cooldown row returns hard_cooldown, and
\* after a call that returns soft_challenge the user has an active
\* soft_challenge row in the scope of the check that answered.
C39_ActionMatchesCooldownState ==
    [][\A p \in Slots :
          GateStep(p)
              => LET u == procs'[p].user
                     first == FirstBreached(u, procs'[p].amount)
                     s == IF first = "existing"
                          THEN GetActiveCooldown(cooldowns, u, TRUE, now).scope
                          ELSE IF first = "global_soft" THEN "global" ELSE "item"
                 IN  /\ (\E c \in CreatedRows : c.cooldown_type = "hard_cooldown")
                            => procs'[p].reject = "hard_cooldown"
                     /\ procs'[p].reject = "soft_challenge"
                            => \E c \in cooldowns' :
                                  /\ c.user = u
                                  /\ c.scope = s
                                  /\ c.cooldown_type = "soft_challenge"
                                  /\ c.is_active]_vars

====
